---- MODULE Spec2Model ----
(***************************************************************************)
(* The tabular-data analysis engine of docloom-cli: AnalyzeCSV and         *)
(* AnalyzeXLSX (package analysis) read a header and a stream of rows,      *)
(* accumulate per-column, per-pair and per-group statistics, and finalize  *)
(* them into a Report that Report.Markdown renders.                        *)
(*                                                                         *)
(* Conventions of the model                                                *)
(*  - a Go string is a sequence of one-character strings, compared         *)
(*    bytewise through CharCode;                                           *)
(*  - a float64 is an exact rational [n |-> numerator, d |-> denominator], *)
(*    kept in lowest terms with d > 0 (the arithmetic of the code without  *)
(*    its rounding);                                                       *)
(*  - a Go map is a function on its key set; where the code ranges over a  *)
(*    map, the iteration order is a nondeterministic choice;               *)
(*  - a nil slice is the empty sequence.                                   *)
(***************************************************************************)
EXTENDS Integers, Sequences, FiniteSets, TLC

(***************************************************************************)
(* Characters and strings                                                  *)
(***************************************************************************)

\* The printable ASCII characters in code order: 32 (space) to 95 (_), and
\* 97 (a) to 126 (~). The backquote (96) cannot be written in a TLA+ string.
AsciiLow ==
    << " ", "!", "\"", "#", "$", "%", "&", "'", "(", ")", "*", "+", ",", "-", ".", "/",
       "0", "1", "2", "3", "4", "5", "6", "7", "8", "9", ":", ";", "<", "=", ">", "?",
       "@", "A", "B", "C", "D", "E", "F", "G", "H", "I", "J", "K", "L", "M", "N", "O",
       "P", "Q", "R", "S", "T", "U", "V", "W", "X", "Y", "Z", "[", "\\", "]", "^", "_" >>

AsciiHigh ==
    << "a", "b", "c", "d", "e", "f", "g", "h", "i", "j", "k", "l", "m", "n", "o", "p",
       "q", "r", "s", "t", "u", "v", "w", "x", "y", "z", "{", "|", "}", "~" >>

\* The degree sign of the units "°C" and "°F"; its UTF-8 encoding starts with
\* byte 194, above every ASCII byte.
Degree == "°"

\* The horizontal tab, byte 9
Tab == "\t"

CharSet ==
    {AsciiLow[i] : i \in 1..Len(AsciiLow)} \cup {AsciiHigh[i] : i \in 1..Len(AsciiHigh)}
        \cup {Degree, Tab}

CharCode[c \in CharSet] ==
    IF c = Degree THEN 194
    ELSE IF c = Tab THEN 9
    ELSE IF \E i \in 1..Len(AsciiLow) : AsciiLow[i] = c
         THEN 31 + (CHOOSE i \in 1..Len(AsciiLow) : AsciiLow[i] = c)
         ELSE 96 + (CHOOSE i \in 1..Len(AsciiHigh) : AsciiHigh[i] = c)

CharOf(code) == IF code <= 95 THEN AsciiLow[code - 31] ELSE AsciiHigh[code - 96]

IsUpper(c) == CharCode[c] >= 65 /\ CharCode[c] <= 90
IsLower(c) == CharCode[c] >= 97 /\ CharCode[c] <= 122
IsDigit(c) == CharCode[c] >= 48 /\ CharCode[c] <= 57
IsLetter(c) == IsUpper(c) \/ IsLower(c)
DigitVal(c) == CharCode[c] - 48

ToLowerChar(c) == IF IsUpper(c) THEN CharOf(CharCode[c] + 32) ELSE c
ToUpperChar(c) == IF IsLower(c) THEN CharOf(CharCode[c] - 32) ELSE c

\* strings.ToLower, strings.ToUpper
ToLower(s) == [i \in 1..Len(s) |-> ToLowerChar(s[i])]
ToUpper(s) == [i \in 1..Len(s) |-> ToUpperChar(s[i])]

\* strings.EqualFold on ASCII text
EqualFold(s, t) == ToLower(s) = ToLower(t)

\* unicode.IsSpace on the alphabet: the space and the tab
White == {" ", Tab}

RECURSIVE TrimLeft(_)
TrimLeft(s) == IF s # <<>> /\ Head(s) \in White THEN TrimLeft(Tail(s)) ELSE s

RECURSIVE TrimRight(_)
TrimRight(s) ==
    IF s # <<>> /\ s[Len(s)] \in White THEN TrimRight(SubSeq(s, 1, Len(s) - 1)) ELSE s

\* strings.TrimSpace
TrimSpace(s) == TrimRight(TrimLeft(s))

\* strings.Contains(s, c) for a one-character c
Contains(s, c) == \E i \in 1..Len(s) : s[i] = c

\* strings.LastIndex(s, c) for a one-character c: 0-based, -1 when absent
LastIndex(s, c) ==
    IF Contains(s, c) THEN (CHOOSE i \in 1..Len(s) : s[i] = c /\ \A j \in (i+1)..Len(s) : s[j] # c) - 1
    ELSE -1

\* strings.ReplaceAll(s, c, t) for a one-character c
RECURSIVE ReplaceAll(_, _, _)
ReplaceAll(s, c, t) ==
    IF s = <<>> THEN <<>>
    ELSE (IF Head(s) = c THEN t ELSE <<Head(s)>>) \o ReplaceAll(Tail(s), c, t)

HasPrefix(s, p) == Len(s) >= Len(p) /\ SubSeq(s, 1, Len(p)) = p
HasSuffix(s, p) == Len(s) >= Len(p) /\ SubSeq(s, Len(s) - Len(p) + 1, Len(s)) = p
TrimPrefix(s, p) == IF HasPrefix(s, p) THEN SubSeq(s, Len(p) + 1, Len(s)) ELSE s

\* strings.Join
RECURSIVE Join(_, _)
Join(parts, sep) ==
    IF parts = <<>> THEN <<>>
    ELSE IF Len(parts) = 1 THEN parts[1]
    ELSE parts[1] \o sep \o Join(Tail(parts), sep)

\* Go's < on strings: bytewise lexicographic order
RECURSIVE StrLess(_, _)
StrLess(s, t) ==
    IF t = <<>> THEN FALSE
    ELSE IF s = <<>> THEN TRUE
    ELSE IF Head(s) = Head(t) THEN StrLess(Tail(s), Tail(t))
    ELSE CharCode[Head(s)] < CharCode[Head(t)]

(***************************************************************************)
(* float64 as exact rationals                                              *)
(***************************************************************************)

Abs(a) == IF a < 0 THEN -a ELSE a

RECURSIVE Gcd(_, _)
Gcd(a, b) == IF b = 0 THEN a ELSE Gcd(b, a % b)

\* The values of a float64 that are no numbers: 1/0 and -1/0 are the
\* infinities, 0/0 is NaN.
PosInf == [n |-> 1, d |-> 0]      \* math.Inf(1)
NegInf == [n |-> -1, d |-> 0]     \* math.Inf(-1)
NaN == [n |-> 0, d |-> 0]         \* math.NaN()

IsNaN(x) == x.d = 0 /\ x.n = 0     \* math.IsNaN(x)
IsInf(x) == x.d = 0 /\ x.n # 0     \* math.IsInf(x, 0)

\* The rational n/d in lowest terms with a positive denominator; with d = 0
\* the infinity of the sign of n, NaN for 0/0.
Rat(n, d) ==
    IF d = 0 THEN [n |-> IF n > 0 THEN 1 ELSE IF n < 0 THEN -1 ELSE 0, d |-> 0]
    ELSE LET g == Gcd(Abs(n), Abs(d))
             s == IF d < 0 THEN -1 ELSE 1
         IN  [n |-> (s * n) \div g, d |-> (s * d) \div g]

RInt(k) == [n |-> k, d |-> 1]
RZero == RInt(0)
ROne == RInt(1)
RNeg(x) == [n |-> -x.n, d |-> x.d]
RAbs(x) == [n |-> Abs(x.n), d |-> x.d]
\* x + y: two infinities add up to themselves or, of opposite signs, to NaN
RAdd(x, y) ==
    IF IsInf(x) /\ IsInf(y) THEN (IF x.n = y.n THEN x ELSE NaN)
    ELSE Rat(x.n * y.d + y.n * x.d, x.d * y.d)
RSub(x, y) == RAdd(x, RNeg(y))
RMul(x, y) == Rat(x.n * y.n, x.d * y.d)
\* x / y = x * (1/y), 1/0 being the positive infinity
RDiv(x, y) == RMul(x, Rat(y.d, y.n))
\* x < y and x <= y, false when x or y is NaN
RLess(x, y) == IF x.d = 0 /\ y.d = 0 THEN x.n = -1 /\ y.n = 1 ELSE x.n * y.d < y.n * x.d
RLeq(x, y) == ~IsNaN(x) /\ ~IsNaN(y) /\ (x = y \/ RLess(x, y))
RIsZero(x) == x.n = 0 /\ x.d # 0

(***************************************************************************)
(* Options (part_022, lines 19-41)                                         *)
(***************************************************************************)

\* The zero rune of Options.Delimiter, DecimalSeparator, ThousandsSeparator.
NoRune == ""

\* Unit names
UnitGL == <<"g", "/", "L">>
UnitMgL == <<"m", "g", "/", "L">>
UnitUgL == <<"u", "g", "/", "L">>
UnitDegF == <<Degree, "F">>
UnitDegC == <<Degree, "C">>
UnitPercent == <<"%">>
UnitPpm == <<"p", "p", "m">>
UnitPpb == <<"p", "p", "b">>
UnitBrix == <<"B", "r", "i", "x">>

\* A Go map as a function: the lookup m[k] with its "ok" result.
HasKey(m, k) == k \in DOMAIN m
NilMap == <<>>

\* DefaultOptions().UnitTargets
DefaultUnitTargets ==
    (UnitGL :> UnitMgL) @@ (UnitUgL :> UnitMgL) @@ (UnitDegF :> UnitDegC)

\* DefaultOptions(): MaxRows 100000, SampleRows 5, UnitNormalize with the
\* three unit targets, everything else zero.
DefaultMaxRows == 100000
DefaultSampleRows == 5

DefaultOptions ==
    [ MaxRows |-> DefaultMaxRows, SampleRows |-> DefaultSampleRows, Delimiter |-> NoRune,
      GroupBy |-> <<>>, Correlations |-> FALSE, CorrPerGroup |-> FALSE,
      DecimalSeparator |-> NoRune, ThousandsSeparator |-> NoRune,
      Outliers |-> FALSE, OutlierThreshold |-> RZero,
      UnitNormalize |-> TRUE, UnitTargets |-> DefaultUnitTargets ]

(***************************************************************************)
(* Numeric and locale parser                                               *)
(***************************************************************************)

RECURSIVE DigitsValue(_, _)
\* The value of a digit string, most significant digit first.
DigitsValue(s, acc) ==
    IF s = <<>> THEN acc ELSE DigitsValue(Tail(s), 10 * acc + DigitVal(Head(s)))

RECURSIVE Pow10(_)
Pow10(k) == IF k = 0 THEN 1 ELSE 10 * Pow10(k - 1)

AllDigits(s) == \A i \in 1..Len(s) : IsDigit(s[i])

\* strconv.ParseFloat on the spellings of the values that are no numbers
\* (strconv's special): "inf" and "infinity" with an optional sign, "nan"
\* without one, in any case of the letters; low is the text in lower case.
SpecialOf(low) ==
    IF low \in { <<"i", "n", "f">>, <<"+", "i", "n", "f">>,
                 <<"i", "n", "f", "i", "n", "i", "t", "y">>,
                 <<"+", "i", "n", "f", "i", "n", "i", "t", "y">> }
        THEN [ok |-> TRUE, x |-> PosInf]
    ELSE IF low \in { <<"-", "i", "n", "f">>, <<"-", "i", "n", "f", "i", "n", "i", "t", "y">> }
        THEN [ok |-> TRUE, x |-> NegInf]
    ELSE IF low = <<"n", "a", "n">> THEN [ok |-> TRUE, x |-> NaN]
    ELSE [ok |-> FALSE, x |-> RZero]

\* The spellings have 3, 4, 8 or 9 characters
ParseSpecial(raw) ==
    IF Len(raw) \in {3, 4, 8, 9} THEN SpecialOf(ToLower(raw)) ELSE [ok |-> FALSE, x |-> RZero]

\* strconv.ParseFloat(raw, 64) on plain decimal text: an optional sign, digits
\* with at most one ".", and a digit on at least one side of it. Exponents
\* and hexadecimal floats need the letters e, p, x next to digits, which no
\* cell of the model's inputs holds.
ParseDecimal(raw) ==
    LET signed == raw # <<>> /\ Head(raw) \in {"+", "-"}
        body == IF signed THEN Tail(raw) ELSE raw
        dot == LastIndex(body, ".")
        ip == IF dot >= 0 THEN SubSeq(body, 1, dot) ELSE body
        fp == IF dot >= 0 THEN SubSeq(body, dot + 2, Len(body)) ELSE <<>>
        ok == AllDigits(ip) /\ AllDigits(fp) /\ Len(ip) + Len(fp) > 0
        mag == Rat(DigitsValue(ip \o fp, 0), Pow10(Len(fp)))
    IN  IF ~ok THEN [ok |-> FALSE, x |-> RZero]
        ELSE [ok |-> TRUE, x |-> IF signed /\ Head(raw) = "-" THEN RNeg(mag) ELSE mag]

\* strconv.ParseFloat(raw, 64)
ParseFloat(raw) == IF ParseSpecial(raw).ok THEN ParseSpecial(raw) ELSE ParseDecimal(raw)

\* The decimal separator when the option counts only next to a configured
\* thousands separator
DecimalOfWhenBoth(opt, raw) ==
    IF opt.DecimalSeparator # NoRune /\ opt.ThousandsSeparator # NoRune THEN opt.DecimalSeparator
    ELSE IF LastIndex(raw, ",") >= 0 /\ LastIndex(raw, ".") >= 0
         THEN (IF LastIndex(raw, ",") > LastIndex(raw, ".") THEN "," ELSE ".")
    ELSE IF LastIndex(raw, ",") >= 0 THEN ","
    ELSE "."

\* The decimal separator: the option, or auto-detected from the last "," and
\* the last "." of the text
DecimalOf(opt, raw) ==
    IF opt.DecimalSeparator # NoRune THEN opt.DecimalSeparator
    ELSE IF LastIndex(raw, ",") >= 0 /\ LastIndex(raw, ".") >= 0
         THEN (IF LastIndex(raw, ",") > LastIndex(raw, ".") THEN "," ELSE ".")
    ELSE IF LastIndex(raw, ",") >= 0 THEN ","
    ELSE "."

\* The thousands separator: set by the auto-detection when the text holds
\* both "," and ".", the option otherwise
ThousandsOf(opt, raw) ==
    IF opt.DecimalSeparator = NoRune /\ LastIndex(raw, ",") >= 0 /\ LastIndex(raw, ".") >= 0
    THEN (IF LastIndex(raw, ",") > LastIndex(raw, ".") THEN "." ELSE ",")
    ELSE opt.ThousandsSeparator

\* One of the common separators is removed when it is not the decimal one
StripSep(raw, sep, dec) == IF sep # dec THEN ReplaceAll(raw, sep, <<>>) ELSE raw

\* The text without its thousands separators
WithoutThousands(raw, dec, thou) ==
    IF thou = NoRune THEN StripSep(StripSep(StripSep(raw, ",", dec), ".", dec), " ", dec)
    ELSE IF thou # dec THEN ReplaceAll(raw, thou, <<>>)
    ELSE raw

\* The decimal separator replaced by "."
WithDot(raw, dec) == IF dec # "." THEN ReplaceAll(raw, dec, <<".">>) ELSE raw

\* The "%" signs removed
WithoutPercent(raw) == IF Contains(raw, "%") THEN ReplaceAll(raw, "%", <<>>) ELSE raw

\* parseNumeric(s, unit, opt): (value, ok). The non-breaking space that the
\* code rewrites to a space is not in the alphabet.
parseNumeric(s, unit, opt) ==
    LET raw == TrimSpace(WithoutPercent(TrimSpace(s)))
    IN  ParseFloat(WithDot(WithoutThousands(raw, DecimalOf(opt, raw), ThousandsOf(opt, raw)),
                           DecimalOf(opt, raw)))

\* Days of a month, as time.Parse validates the day against the month.
IsLeap(y) == (y % 4 = 0 /\ y % 100 # 0) \/ y % 400 = 0
DaysIn(m, y) ==
    IF m = 2 THEN (IF IsLeap(y) THEN 29 ELSE 28)
    ELSE IF m \in {4, 6, 9, 11} THEN 30 ELSE 31

ValidDate(y, m, d) ==
    /\ AllDigits(y) /\ AllDigits(m) /\ AllDigits(d)
    /\ DigitsValue(m, 0) \in 1..12
    /\ DigitsValue(d, 0) >= 1
    /\ DigitsValue(d, 0) <= DaysIn(DigitsValue(m, 0), DigitsValue(y, 0))

\* parseTimeMaybe(s): whether one of the layouts parses s. The layouts with a
\* time of day (RFC3339, "2006-01-02 15:04", "2006-01-02 15:04:05",
\* "1/2/2006 15:04", "1/2/2006 15:04:05") need a ":" in s; the date layouts
\* "2006-01-02", "2006/01/02", "02/01/2006" and "01/02/2006" are ten
\* characters with fixed-width fields.
parseTimeMaybe(s) ==
    /\ ~Contains(s, ":")
    /\ Len(s) = 10
    /\ \/ /\ s[5] = "-" /\ s[8] = "-"
          /\ ValidDate(SubSeq(s, 1, 4), SubSeq(s, 6, 7), SubSeq(s, 9, 10))
       \/ /\ s[5] = "/" /\ s[8] = "/"
          /\ ValidDate(SubSeq(s, 1, 4), SubSeq(s, 6, 7), SubSeq(s, 9, 10))
       \/ /\ s[3] = "/" /\ s[6] = "/"
          /\ \/ ValidDate(SubSeq(s, 7, 10), SubSeq(s, 4, 5), SubSeq(s, 1, 2))
             \/ ValidDate(SubSeq(s, 7, 10), SubSeq(s, 1, 2), SubSeq(s, 4, 5))

\* normalizeUnit(x, unit, opt): (value, unit, ok)
normalizeUnit(x, unit, opt) ==
    IF ~HasKey(opt.UnitTargets, unit) THEN [x |-> x, unit |-> unit, ok |-> FALSE]
    ELSE LET target == opt.UnitTargets[unit]
         IN  IF unit = UnitGL /\ target = UnitMgL
                 THEN [x |-> RMul(x, RInt(1000)), unit |-> target, ok |-> TRUE]
             ELSE IF unit = UnitUgL /\ target = UnitMgL
                 THEN [x |-> RDiv(x, RInt(1000)), unit |-> target, ok |-> TRUE]
             ELSE IF unit = UnitDegF /\ target = UnitDegC
                 THEN [x |-> RDiv(RMul(RSub(x, RInt(32)), RInt(5)), RInt(9)),
                       unit |-> target, ok |-> TRUE]
             ELSE [x |-> x, unit |-> unit, ok |-> FALSE]

\* safeVal(s): newlines (not in the alphabet) to spaces, "|" to "/"
safeVal(s) == ReplaceAll(s, "|", <<"/">>)

\* safeName(s)
Unnamed == <<"(", "u", "n", "n", "a", "m", "e", "d", ")">>
safeName(s) == IF TrimSpace(s) = <<>> THEN Unnamed ELSE TrimSpace(s)

\* unitPatterns[0] and [1]: ^(.*)\s*\(([^)]+)\)\s*$ and the same with [ ].
\* On trimmed text the greedy (.*) ends at the last opening bracket whose
\* content up to the final closing bracket is non-empty and holds no closing
\* bracket. The result is (matched, base, unit), both trimmed.
BracketMatch(s, open, close) ==
    LET n == Len(s)
        cand == {i \in 1..n : /\ s[i] = open
                              /\ n >= 1 /\ s[n] = close
                              /\ i + 1 <= n - 1
                              /\ \A j \in (i+1)..(n-1) : s[j] # close}
    IN  IF cand = {} THEN [m |-> FALSE, base |-> <<>>, u |-> <<>>]
        ELSE LET i == CHOOSE k \in cand : \A l \in cand : l <= k
             IN  [m |-> TRUE, base |-> TrimSpace(SubSeq(s, 1, i - 1)),
                  u |-> TrimSpace(SubSeq(s, i + 1, n - 1))]

\* The unit vocabulary of unitPatterns[2].
UnitVocabulary ==
    {UnitMgL, UnitGL, UnitUgL, UnitDegC, UnitDegF, UnitBrix, UnitPercent, UnitPpm, UnitPpb}

IsUnitSep(c) == c \in {"_", " ", "-"}

\* unitPatterns[2]: ^(.*?)[_\s-]+(unit)$ with the lazy (.*?) as short as can be.
SuffixMatch(s) ==
    LET n == Len(s)
        fits(p) == \E q \in (p+1)..n :
                      /\ \A j \in (p+1)..q : IsUnitSep(s[j])
                      /\ SubSeq(s, q + 1, n) \in UnitVocabulary
        cand == {p \in 0..n : fits(p)}
    IN  IF cand = {} THEN [m |-> FALSE, base |-> <<>>, u |-> <<>>]
        ELSE LET p == CHOOSE k \in cand : \A l \in cand : k <= l
                 q == CHOOSE k \in (p+1)..n :
                          /\ \A j \in (p+1)..k : IsUnitSep(s[j])
                          /\ SubSeq(s, k + 1, n) \in UnitVocabulary
             IN  [m |-> TRUE, base |-> TrimSpace(SubSeq(s, 1, p)),
                  u |-> TrimSpace(SubSeq(s, q + 1, n))]

\* splitUnits(name): (clean, unit); the first pattern that matches with a
\* non-empty base and unit wins.
splitUnits(name) ==
    LET s == TrimSpace(name)
        m1 == BracketMatch(s, "(", ")")
        m2 == BracketMatch(s, "[", "]")
        m3 == SuffixMatch(s)
        good(m) == m.m /\ m.base # <<>> /\ m.u # <<>>
    IN  IF good(m1) THEN [clean |-> m1.base, unit |-> m1.u]
        ELSE IF good(m2) THEN [clean |-> m2.base, unit |-> m2.u]
        ELSE IF good(m3) THEN [clean |-> m3.base, unit |-> m3.u]
        ELSE [clean |-> s, unit |-> <<>>]


(***************************************************************************)
(* Go maps and sorting                                                     *)
(***************************************************************************)

\* m[k] with the zero value z for an absent key
MapGet(m, k, z) == IF k \in DOMAIN m THEN m[k] ELSE z

\* m[k] = v
MapPut(m, k, v) == [x \in DOMAIN m \cup {k} |-> IF x = k THEN v ELSE m[x]]

\* The orders in which a range over a map with key set S can visit its keys.
Perms(S) ==
    {p \in [1..Cardinality(S) -> S] : \A i, j \in 1..Cardinality(S) : p[i] = p[j] => i = j}

\* sort.Slice on at most 12 elements is an insertion sort (insertionSortLessFunc):
\* each element moves left past the elements it is less than, so elements
\* that compare equal keep their input order. A longer slice is sorted by
\* pdqsort, which is not stable; the only longer slices of the model are
\* the groups, whose keys differ, so that no two elements compare equal and
\* every sort yields the one sorted sequence.
RECURSIVE InsertSorted(_, _, _)
InsertSorted(Less(_, _), sorted, e) ==
    IF sorted # <<>> /\ Less(e, sorted[Len(sorted)])
    THEN Append(InsertSorted(Less, SubSeq(sorted, 1, Len(sorted) - 1), e), sorted[Len(sorted)])
    ELSE Append(sorted, e)

RECURSIVE SortSliceFrom(_, _, _)
SortSliceFrom(Less(_, _), done, rest) ==
    IF rest = <<>> THEN done
    ELSE SortSliceFrom(Less, InsertSorted(Less, done, Head(rest)), Tail(rest))

SortSlice(Less(_, _), s) == SortSliceFrom(Less, <<>>, s)

\* s[:k] when len(s) > k
Cap(s, k) == IF Len(s) > k THEN SubSeq(s, 1, k) ELSE s

(***************************************************************************)
(* Accumulators of AnalyzeCSV / AnalyzeXLSX                                *)
(***************************************************************************)

\* colAcc, as the header loop creates it
NewColAcc(clean, unit) ==
    [ name |-> clean, unit |-> unit, origUnit |-> unit, nonNil |-> 0, miss |-> 0,
      n |-> 0, mean |-> RZero, m2 |-> RZero, min |-> PosInf, max |-> NegInf,
      numCnt |-> 0, dtCnt |-> 0, txtCnt |-> 0, cats |-> NilMap, exText |-> <<>> ]

\* pairAcc{}
ZeroPair ==
    [n |-> 0, sumX |-> RZero, sumY |-> RZero, sumXX |-> RZero, sumYY |-> RZero, sumXY |-> RZero]

\* gAcc with its four empty maps
NewGAcc == [size |-> 0, sum |-> NilMap, cnt |-> NilMap, min |-> NilMap, max |-> NilMap]

\* The guards of the category histogram and of the example texts.
CatsGuard == 10000
MaxCatLen == 64
MaxExText == 3

\* cols, built from the header row; column indices are 0-based as in the code,
\* cols[j + 1] is the code's cols[j].
InitCols(hdr) ==
    [i \in 1..Len(hdr) |->
        LET su == splitUnits(TrimSpace(hdr[i])) IN NewColAcc(su.clean, su.unit)]

\* gbIndex: lower-cased clean name -> column index; a later column of the
\* same name overwrites an earlier one.
InitGbIndex(cs) ==
    [nm \in {ToLower(cs[i].name) : i \in 1..Len(cs)} |->
        (CHOOSE i \in 1..Len(cs) :
            /\ ToLower(cs[i].name) = nm
            /\ \A k \in 1..Len(cs) : ToLower(cs[k].name) = nm => k <= i) - 1]

\* The state of the accumulation loop after the header.
InitAcc(hdr) ==
    [ ncol |-> Len(hdr), cols |-> InitCols(hdr), gbIndex |-> InitGbIndex(InitCols(hdr)),
      numericVals |-> <<>>, pair |-> NilMap, groups |-> NilMap, gPairs |-> NilMap ]

\* Rows shorter than the header are padded with empty cells.
RECURSIVE PadRow(_, _)
PadRow(rec, ncol) == IF Len(rec) < ncol THEN PadRow(Append(rec, <<>>), ncol) ELSE rec

\* make([]string, ncol); copy(rowCopy, rec)
RowCopy(rec, ncol) == SubSeq(rec, 1, ncol)

\* sampleRows of AnalyzeCSV (part_022, lines 192-195)
SampleLimitCSV(opt) == IF opt.SampleRows <= 0 THEN DefaultSampleRows ELSE opt.SampleRows

\* sampleRows of AnalyzeXLSX (xlsx.go, lines 124-127)
SampleLimitXLSX(opt) == IF opt.SampleRows < 0 THEN DefaultSampleRows ELSE opt.SampleRows

SampleLimit(src, opt) == IF src = "csv" THEN SampleLimitCSV(opt) ELSE SampleLimitXLSX(opt)

\* The cap tested with > instead of >=
UnderRowCapOffByOne(opt, processed) == opt.MaxRows <= 0 \/ processed <= opt.MaxRows

\* maxRows: math.MaxInt when MaxRows <= 0, modelled as "no cap".
UnderRowCap(opt, processed) == opt.MaxRows <= 0 \/ processed < opt.MaxRows

\* The group key of a row: "name=value" of every GroupBy column found in
\* gbIndex, joined by " | "; the empty string when there is no part.
RECURSIVE GroupParts(_, _, _, _)
GroupParts(names, gbIndex, cs, rec) ==
    IF names = <<>> THEN <<>>
    ELSE LET lk == ToLower(TrimSpace(Head(names)))
             rest == GroupParts(Tail(names), gbIndex, cs, rec)
         IN  IF lk \notin DOMAIN gbIndex \/ gbIndex[lk] >= Len(rec) THEN rest
             ELSE LET idx == gbIndex[lk]
                      val == TrimSpace(rec[idx + 1])
                  IN  <<cs[idx + 1].name \o <<"=">> \o safeVal(val)>> \o rest

GroupSep == <<" ", "|", " ">>

GroupKey(opt, a, rec) ==
    IF Len(opt.GroupBy) > 0
    THEN LET parts == GroupParts(opt.GroupBy, a.gbIndex, a.cols, rec)
         IN  IF Len(parts) > 0 THEN Join(parts, GroupSep) ELSE <<>>
    ELSE <<>>

\* ga.sum[j] += x; ga.cnt[j]++; ga.min[j], ga.max[j] (a group is created on
\* its first numeric cell or at the end of its first row)
GroupAddNumeric(groups, gkey, j, x) ==
    LET ga == MapGet(groups, gkey, NewGAcc)
        ga2 == [ga EXCEPT
                  !.sum = MapPut(@, j, RAdd(MapGet(@, j, RZero), x)),
                  !.cnt = MapPut(@, j, MapGet(@, j, 0) + 1),
                  !.min = IF j \notin DOMAIN @ \/ RLess(x, @[j]) THEN MapPut(@, j, x) ELSE @,
                  !.max = IF j \notin DOMAIN @ \/ RLess(@[j], x) THEN MapPut(@, j, x) ELSE @]
    IN  MapPut(groups, gkey, ga2)

\* ga.size++ in the cell loop and again after it
GroupAddRowTwice(groups, gkey) ==
    LET ga == MapGet(groups, gkey, NewGAcc)
    IN  MapPut(groups, gkey, [ga EXCEPT !.size = @ + 2])

\* ga.size++ once per row
GroupAddRow(groups, gkey) ==
    LET ga == MapGet(groups, gkey, NewGAcc)
    IN  MapPut(groups, gkey, [ga EXCEPT !.size = @ + 1])

\* numericVals = make([][]float64, ncol) when nil
AllocVals(vals, ncol) == IF vals = <<>> THEN [i \in 1..ncol |-> <<>>] ELSE vals

\* A forgotten cols[j].miss++
CountMissingDropped(c) == c

\* cols[j].miss++
CountMissing(c) == [c EXCEPT !.miss = @ + 1]

\* c.nonNil++, and the "%" unit of a column without unit whose cell holds "%"
CountCell(c, v) ==
    [c EXCEPT !.nonNil = @ + 1,
              !.unit = IF Contains(v, "%") /\ c.unit = <<>> THEN UnitPercent ELSE @,
              !.origUnit = IF Contains(v, "%") /\ c.unit = <<>> /\ @ = <<>>
                           THEN UnitPercent ELSE @]

\* The normalization decided by the recorded unit of the column
NormalizedFromRecorded(opt, c, x) ==
    IF opt.UnitNormalize /\ c.unit # <<>> /\ normalizeUnit(x, c.unit, opt).ok
    THEN normalizeUnit(x, c.unit, opt)
    ELSE [x |-> x, unit |-> c.unit, ok |-> FALSE]

\* The value and the unit after normalizeUnit, when UnitNormalize is set, the
\* column has an original unit and the conversion applies.
Normalized(opt, c, x) ==
    IF opt.UnitNormalize /\ c.origUnit # <<>> /\ normalizeUnit(x, c.origUnit, opt).ok
    THEN normalizeUnit(x, c.origUnit, opt)
    ELSE [x |-> x, unit |-> c.unit, ok |-> FALSE]

\* The Welford update of a column with the value x, and its unit
WelfordAdd(c, x, unit) ==
    LET delta == RSub(x, c.mean)
        mean == RAdd(c.mean, RDiv(delta, RInt(c.n + 1)))
    IN  [c EXCEPT !.unit = unit,
                  !.numCnt = @ + 1,
                  !.n = @ + 1,
                  !.min = IF RLess(x, @) THEN x ELSE @,
                  !.max = IF RLess(@, x) THEN x ELSE @,
                  !.mean = mean,
                  !.m2 = RAdd(@, RMul(delta, RSub(x, mean)))]

\* A cell that parses as a number: nu is the value and unit after normalization
NumericCell(src, opt, gkey, ncol, j, c, nu, ls) ==
    [ cols |-> [ls.cols EXCEPT ![j + 1] = WelfordAdd(c, nu.x, nu.unit)],
      rowNums |-> IF opt.Correlations THEN MapPut(ls.rowNums, j, nu.x) ELSE ls.rowNums,
      numericVals |-> [(IF src = "xlsx" THEN AllocVals(ls.numericVals, ncol)
                        ELSE ls.numericVals) EXCEPT ![j + 1] = Append(@, nu.x)],
      groups |-> IF gkey # <<>> THEN GroupAddNumeric(ls.groups, gkey, j, nu.x)
                 ELSE ls.groups ]

\* A cell that is neither a number nor a date: text or category
TextCell(c, v) ==
    [c EXCEPT !.txtCnt = @ + 1,
              !.cats = IF Cardinality(DOMAIN @) <= CatsGuard /\ Len(v) <= MaxCatLen
                       THEN MapPut(@, v, MapGet(@, v, 0) + 1) ELSE @,
              !.exText = IF Len(@) < MaxExText THEN Append(@, v) ELSE @]

\* A non-empty cell v of column j, c the column after CountCell and p the
\* result of parseNumeric: numeric first, then datetime, then text.
ParsedCell(src, opt, gkey, ncol, j, v, c, p, ls) ==
    IF p.ok THEN NumericCell(src, opt, gkey, ncol, j, c, Normalized(opt, c, p.x), ls)
    ELSE IF parseTimeMaybe(v) THEN [ls EXCEPT !.cols[j + 1] = [c EXCEPT !.dtCnt = @ + 1]]
    ELSE [ls EXCEPT !.cols[j + 1] = TextCell(c, v)]

\* One iteration of the column loop, for cell j (0-based) of the row. ls holds
\* what the loop changes: cols, rowNums, numericVals, groups.
CellStep(src, opt, gkey, ncol, j, cell, ls) ==
    LET v == TrimSpace(cell)
    IN  IF v = <<>> THEN [ls EXCEPT !.cols[j + 1] = CountMissing(@)]
        ELSE ParsedCell(src, opt, gkey, ncol, j, v, CountCell(ls.cols[j + 1], v),
                        parseNumeric(v, CountCell(ls.cols[j + 1], v).unit, opt), ls)

\* for j := 0; j < ncol; j++ { ... }
RECURSIVE CellLoop(_, _, _, _, _, _, _)
CellLoop(src, opt, gkey, ncol, j, rec, ls) ==
    IF j >= ncol THEN ls
    ELSE CellLoop(src, opt, gkey, ncol, j + 1, rec,
                  CellStep(src, opt, gkey, ncol, j, rec[j + 1], ls))

\* pa.n += 1; pa.sumX += x; ... for the pair (x of column j, y of column k)
PairAdd(pa, x, y) ==
    [ n |-> pa.n + 1,
      sumX |-> RAdd(pa.sumX, x), sumY |-> RAdd(pa.sumY, y),
      sumXX |-> RAdd(pa.sumXX, RMul(x, x)), sumYY |-> RAdd(pa.sumYY, RMul(y, y)),
      sumXY |-> RAdd(pa.sumXY, RMul(x, y)) ]

\* key = j*ncol + k for the columns j > k of the row
PairKey(j, k, ncol) == j * ncol + k

\* Listwise deletion: the pairs of a row are fed only when every column of the
\* row is numeric
PairUpdateComplete(pm, ncol, rowNums) ==
    LET hit == IF Cardinality(DOMAIN rowNums) < ncol THEN {}
               ELSE {j * ncol + k : <<j, k>> \in {q \in (DOMAIN rowNums) \X (DOMAIN rowNums) : q[1] > q[2]}}
    IN  [key \in DOMAIN pm \cup hit |->
            IF key \in hit
            THEN PairAdd(MapGet(pm, key, ZeroPair), rowNums[key \div ncol], rowNums[key % ncol])
            ELSE pm[key]]

\* The nested loops over the sorted indices of rowNums: every pair j > k of
\* columns with a numeric value in this row adds one observation to the
\* accumulator under key j*ncol + k.
PairUpdate(pm, ncol, rowNums) ==
    LET hit == {PairKey(j, k, ncol) : <<j, k>> \in {q \in (DOMAIN rowNums) \X (DOMAIN rowNums) : q[1] > q[2]}}
    IN  [key \in DOMAIN pm \cup hit |->
            IF key \in hit
            THEN PairAdd(MapGet(pm, key, ZeroPair), rowNums[key \div ncol], rowNums[key % ncol])
            ELSE pm[key]]

\* The row after its cells: the group size, the pairwise accumulators and the
\* per-group pairwise accumulators. ls is what the column loop leaves.
AfterCells(opt, a, gkey, ls) ==
    [ ncol |-> a.ncol,
      cols |-> ls.cols,
      gbIndex |-> a.gbIndex,
      numericVals |-> ls.numericVals,
      groups |-> IF gkey # <<>> THEN GroupAddRow(ls.groups, gkey) ELSE ls.groups,
      pair |-> IF opt.Correlations /\ Cardinality(DOMAIN ls.rowNums) >= 2
               THEN PairUpdate(a.pair, a.ncol, ls.rowNums)
               ELSE a.pair,
      gPairs |-> IF opt.CorrPerGroup /\ gkey # <<>> /\ Cardinality(DOMAIN ls.rowNums) >= 2
                 THEN MapPut(a.gPairs, gkey,
                             PairUpdate(MapGet(a.gPairs, gkey, NilMap), a.ncol, ls.rowNums))
                 ELSE a.gPairs ]

\* The row and its group key: the column loop, then the rest
KeyedRow(src, opt, a, rec, gkey) ==
    AfterCells(opt, a, gkey,
               CellLoop(src, opt, gkey, a.ncol, 0, rec,
                        [ cols |-> a.cols, rowNums |-> NilMap,
                          numericVals |-> IF src = "csv" THEN AllocVals(a.numericVals, a.ncol)
                                          ELSE a.numericVals,
                          groups |-> a.groups ]))

\* The body of the row loop after rep.Rows++ and the row cap: one processed row.
ProcessRow(src, opt, a, rec) == KeyedRow(src, opt, a, rec, GroupKey(opt, a, rec))


(***************************************************************************)
(* Finalization: column summaries, groups, correlation matrix              *)
(***************************************************************************)

\* math.Sqrt(q), kept as its radicand: the float64 fields Std and R of the
\* report are square roots of rationals.
Sqrt(q) == [radicand |-> q]

\* A correlation value r = s * sqrt(q) with s in {-1, 0, 1} and q = r^2.
RVal(s, q) == [s |-> s, q |-> q]
CorrZero == RVal(0, RZero)
CorrOne == RVal(1, ROne)
Sign(x) == IF x.n > 0 THEN 1 ELSE IF x.n < 0 THEN -1 ELSE 0

\* math.Abs(a.R) < math.Abs(b.R) and math.Abs(a.R) == math.Abs(b.R)
AbsRLess(a, b) == RLess(a.q, b.q)
AbsREq(a, b) == a.q = b.q

\* The three terms of Pearson's r from the sufficient statistics of a pairAcc.
CovTerm(pa) == RSub(RMul(RInt(pa.n), pa.sumXY), RMul(pa.sumX, pa.sumY))
VarXTerm(pa) == RSub(RMul(RInt(pa.n), pa.sumXX), RMul(pa.sumX, pa.sumX))
VarYTerm(pa) == RSub(RMul(RInt(pa.n), pa.sumYY), RMul(pa.sumY, pa.sumY))

\* denom == 0, for denom = math.Sqrt(varX * varY)
DenomIsZero(pa) == RIsZero(RMul(VarXTerm(pa), VarYTerm(pa)))

\* r = cov / denom, clamped to [-1, 1]. (With exact arithmetic r^2 <= 1 for
\* sums of numbers, and the clamp stays a no-op; r is NaN when a sum is.)
PearsonR(pa) ==
    LET cov == CovTerm(pa)
        q == RMul(RDiv(cov, VarXTerm(pa)), RDiv(cov, VarYTerm(pa)))
    IN  IF RLess(ROne, q) THEN RVal(Sign(cov), ROne) ELSE RVal(Sign(cov), q)

\* math.IsNaN(r) || math.IsInf(r, 0)
NotFinite(r) == r.q.d = 0

\* sort.Float64s: ascending, NaN before the numbers
FloatLess(x, y) == RLess(x, y) \/ (IsNaN(x) /\ ~IsNaN(y))
SortFloats(vals) == SortSlice(FloatLess, vals)

\* The interpolation of quantile at the position pos = q * (len - 1)
QuantileAt(sorted, pos) ==
    LET lo == pos.n \div pos.d
        hi == IF pos.d = 1 THEN lo ELSE lo + 1
        w == RSub(pos, RInt(lo))
    IN  IF lo = hi THEN sorted[lo + 1]
        ELSE RAdd(RMul(sorted[lo + 1], RSub(ROne, w)), RMul(sorted[hi + 1], w))

\* quantile(sorted, q) for 0 < q < 1 given as a rational
Quantile(sorted, q) ==
    IF Len(sorted) = 0 THEN RZero ELSE QuantileAt(sorted, RMul(q, RInt(Len(sorted) - 1)))

Half == Rat(1, 2)

\* dev[i] = |cp[i] - median|
Deviations(cp, median) == [i \in 1..Len(cp) |-> RAbs(RSub(cp[i], median))]

\* The median absolute deviation around the median of the sorted copy
MadAround(cp, median) ==
    [median |-> median, mad |-> Quantile(SortFloats(Deviations(cp, median)), Half)]

\* medianMAD(vals): (median, mad)
medianMAD(vals) ==
    IF Len(vals) = 0 THEN [median |-> RZero, mad |-> RZero]
    ELSE MadAround(SortFloats(vals), Quantile(SortFloats(vals), Half))

\* The constants of the outlier detector.
MinOutlierN == 8
ZFactor == Rat(6745, 10000)
DefaultThreshold == Rat(35, 10)

\* thr: the option as it is
ThresholdAsGiven(opt) == opt.OutlierThreshold

\* thr: the option, 3.5 when it is not positive
Threshold(opt) ==
    IF RLeq(opt.OutlierThreshold, RZero) THEN DefaultThreshold ELSE opt.OutlierThreshold

\* |z| of each value, none when the MAD is not positive
AbsZScores(vals, mm) ==
    IF RLess(RZero, mm.mad)
    THEN [i \in 1..Len(vals) |-> RAbs(RDiv(RMul(ZFactor, RSub(vals[i], mm.median)), mm.mad))]
    ELSE <<>>

\* cnt, maxAbsZ and thr from the |z| of the values
CountOutliers(zs, thr) ==
    [ cnt |-> Cardinality({i \in 1..Len(zs) : RLess(thr, zs[i])}),
      maxAbsZ |-> IF zs = <<>> THEN RZero
                  ELSE zs[CHOOSE i \in 1..Len(zs) : \A k \in 1..Len(zs) : RLeq(zs[k], zs[i])],
      thr |-> thr ]

\* The robust z-scores of a column: (count above thr, max |z|, thr)
OutlierStats(vals, opt) == CountOutliers(AbsZScores(vals, medianMAD(vals)), Threshold(opt))

\* The kind when a tie of the hit counts goes to the text
KindOfStrictMajority(c) ==
    IF c.numCnt > c.dtCnt /\ c.numCnt > c.txtCnt THEN "numeric"
    ELSE IF c.dtCnt > c.txtCnt THEN "datetime"
    ELSE IF Cardinality(DOMAIN c.cats) > 0 THEN "categorical"
    ELSE IF c.txtCnt > 0 THEN "text"
    ELSE "unknown"

\* The kind of a column, by its predominant parsed type.
KindOf(c) ==
    IF c.numCnt >= c.dtCnt /\ c.numCnt >= c.txtCnt /\ c.numCnt > 0 THEN "numeric"
    ELSE IF c.dtCnt >= c.txtCnt /\ c.dtCnt > 0 THEN "datetime"
    ELSE IF Cardinality(DOMAIN c.cats) > 0 THEN "categorical"
    ELSE IF c.txtCnt > 0 THEN "text"
    ELSE "unknown"

MaxTopValues == 8

\* tops[i] before tops[j]: higher count first, equal counts by value
CatLess(a, b) == IF a.Count = b.Count THEN StrLess(a.Value, b.Value) ELSE a.Count > b.Count

\* The top values of a categorical column; catOrder is the order in which the
\* range over c.cats visits its keys.
TopValues(c, catOrder) ==
    Cap(SortSlice(CatLess, [i \in 1..Len(catOrder) |->
                               [Value |-> catOrder[i], Count |-> c.cats[catOrder[i]]]]),
        MaxTopValues)

\* ColumnSummary{Name, Unit, NonNull, Missing} with every other field zero
ZeroSummary(c) ==
    [ Name |-> c.name, Kind |-> "unknown", Unit |-> c.unit, NonNull |-> c.nonNil,
      Missing |-> c.miss, Unique |-> 0, Min |-> RZero, Max |-> RZero, Mean |-> RZero,
      Std |-> Sqrt(RZero), OutliersCount |-> 0, OutliersMaxAbsZ |-> RZero,
      OutlierThreshold |-> RZero, TopValues |-> <<>>, ExampleTexts |-> <<>> ]

\* s.OutliersCount, s.OutliersMaxAbsZ, s.OutlierThreshold
WithOutliers(s, o) ==
    [s EXCEPT !.OutliersCount = o.cnt, !.OutliersMaxAbsZ = o.maxAbsZ, !.OutlierThreshold = o.thr]

\* Min, Max, Mean and Std of a numeric column
WithStats(s, c) ==
    [s EXCEPT !.Min = c.min, !.Max = c.max, !.Mean = c.mean,
              !.Std = IF c.n > 1 THEN Sqrt(RDiv(c.m2, RInt(c.n - 1))) ELSE @]

\* The summary with the outliers counted whatever the number of values
SummaryOfAnyLength(opt, c, kind, vals, catOrder) ==
    IF kind = "numeric" /\ opt.Outliers
    THEN WithOutliers(WithStats([ZeroSummary(c) EXCEPT !.Kind = kind], c), OutlierStats(vals, opt))
    ELSE [ZeroSummary(c) EXCEPT !.Kind = kind]

\* The summary of the column c of kind `kind`; vals is numericVals of the column
SummaryOf(opt, c, kind, vals, catOrder) ==
    IF kind = "numeric" THEN
        IF opt.Outliers /\ Len(vals) >= MinOutlierN
        THEN WithOutliers(WithStats([ZeroSummary(c) EXCEPT !.Kind = kind], c),
                          OutlierStats(vals, opt))
        ELSE WithStats([ZeroSummary(c) EXCEPT !.Kind = kind], c)
    ELSE IF kind = "categorical" THEN
        [ZeroSummary(c) EXCEPT !.Kind = kind,
                               !.TopValues = TopValues(c, catOrder),
                               !.Unique = Cardinality(DOMAIN c.cats)]
    ELSE IF kind = "text" THEN [ZeroSummary(c) EXCEPT !.Kind = kind, !.ExampleTexts = c.exText]
    ELSE [ZeroSummary(c) EXCEPT !.Kind = kind]

\* The summary of column j (0-based).
Summarize(opt, a, j, catOrder) ==
    SummaryOf(opt, a.cols[j + 1], KindOf(a.cols[j + 1]),
              IF a.numericVals = <<>> THEN <<>> ELSE a.numericVals[j + 1], catOrder)

\* numCols: the 0-based indices of the numeric-kind columns, ascending
RECURSIVE NumColsFrom(_, _)
NumColsFrom(a, j) ==
    IF j >= a.ncol THEN <<>>
    ELSE (IF KindOf(a.cols[j + 1]) = "numeric" THEN <<j>> ELSE <<>>) \o NumColsFrom(a, j + 1)

NumCols(a) == NumColsFrom(a, 0)

\* gr.Metrics: for each numeric column with a value in the group, keyed by
\* column name; of two columns of one name the later one stays.
GroupMetrics(a, ga) ==
    LET numCols == NumCols(a)
        live == {i \in 1..Len(numCols) : MapGet(ga.cnt, numCols[i], 0) # 0}
        nameOf(i) == a.cols[numCols[i] + 1].name
    IN  [nm \in {nameOf(i) : i \in live} |->
            LET i == CHOOSE k \in live : nameOf(k) = nm /\ \A l \in live : nameOf(l) = nm => l <= k
                idx == numCols[i]
            IN  [ Count |-> ga.cnt[idx], Min |-> ga.min[idx], Max |-> ga.max[idx],
                  Mean |-> RDiv(ga.sum[idx], RInt(ga.cnt[idx])) ]]

MaxGroupPairs == 10
MaxGroups == 20

\* pairs[i] before pairs[j]: larger |r| first, equal |r| by A+B
PairLess(a, b) == IF AbsREq(a.R, b.R) THEN StrLess(a.A \o a.B, b.A \o b.B) ELSE AbsRLess(b.R, a.R)

\* The pairs of one group in the order keyOrder in which the range over the
\* group's pair map visits its keys, before sorting.
RECURSIVE GroupPairList(_, _, _)
GroupPairList(a, gp, keyOrder) ==
    IF keyOrder = <<>> THEN <<>>
    ELSE LET key == Head(keyOrder)
             pa == gp[key]
             j == key \div a.ncol
             k2 == key % a.ncol
             rest == GroupPairList(a, gp, Tail(keyOrder))
         IN  IF pa.n < 2 \/ DenomIsZero(pa) \/ NotFinite(PearsonR(pa)) THEN rest
             ELSE <<[A |-> a.cols[k2 + 1].name, B |-> a.cols[j + 1].name, R |-> PearsonR(pa)]>>
                  \o rest

\* gr.CorrPairs
GroupCorrPairs(opt, a, gkey, ord) ==
    IF opt.CorrPerGroup /\ gkey \in DOMAIN a.gPairs
    THEN Cap(SortSlice(PairLess, GroupPairList(a, a.gPairs[gkey], ord.gp[gkey])), MaxGroupPairs)
    ELSE <<>>

\* The order by size alone
GroupLessBySize(g, h) == g.Size > h.Size

\* out[i] before out[j]: larger size first, equal sizes by key
GroupLess(g, h) == IF g.Size = h.Size THEN StrLess(g.Key, h.Key) ELSE g.Size > h.Size

\* rep.Groups; ord.groups is the order in which the range over groups visits
\* its keys.
BuildGroups(opt, a, ord) ==
    IF Cardinality(DOMAIN a.groups) > 0
    THEN Cap(SortSlice(GroupLess,
                [i \in 1..Len(ord.groups) |->
                    LET k == ord.groups[i]
                    IN  [ Key |-> k, Size |-> a.groups[k].size,
                          Metrics |-> GroupMetrics(a, a.groups[k]),
                          CorrPairs |-> GroupCorrPairs(opt, a, k, ord) ]]),
             MaxGroups)
    ELSE <<>>

\* The key without max and min
MatrixKeyOrdered(ia, ib, ncol) == ia * ncol + ib

\* key := max(ia, ib)*ncol + min(ia, ib)
MatrixKey(ia, ib, ncol) ==
    (IF ia > ib THEN ia ELSE ib) * ncol + (IF ia < ib THEN ia ELSE ib)

\* mat[a][b] for a # b
MatrixCell(a, ia, ib) ==
    LET key == MatrixKey(ia, ib, a.ncol)
    IN  IF key \in DOMAIN a.pair /\ a.pair[key].n >= 2
        THEN (IF DenomIsZero(a.pair[key]) \/ NotFinite(PearsonR(a.pair[key])) THEN CorrZero
              ELSE PearsonR(a.pair[key]))
        ELSE CorrZero

\* A nil *CorrMatrix
NilCorr == [Columns |-> <<>>, Values |-> <<>>]

\* rep.Corr
BuildCorr(opt, a) ==
    LET numCols == NumCols(a)
        n == Len(numCols)
    IN  IF opt.Correlations /\ n >= 2
        THEN [ Columns |-> [i \in 1..n |-> a.cols[numCols[i] + 1].name],
               Values |-> [x \in 1..n |-> [y \in 1..n |->
                              IF x = y THEN CorrOne ELSE MatrixCell(a, numCols[x], numCols[y])]] ]
        ELSE NilCorr

\* fmt.Sprintf("processed only %d/%d rows due to MaxRows", ...)
RowCapWarning(processed, rows) ==
    "processed only " \o ToString(processed) \o "/" \o ToString(rows) \o " rows due to MaxRows"

\* &Report{Name: filepath.Base(path)}
EmptyReport(name) ==
    [ nil |-> FALSE, Name |-> name, Rows |-> 0, Processed |-> 0, Cols |-> <<>>,
      Samples |-> <<>>, Warnings |-> <<>>, Groups |-> <<>>, Corr |-> NilCorr ]

\* The nil *Report returned with an error
NilReport == [EmptyReport(<<>>) EXCEPT !.nil = TRUE]

\* Everything after the row loop: rep is the report as the loop left it
\* (Name, Rows, Processed, Samples), a the accumulators, ord the orders of the
\* ranges over the maps.
Finalize(opt, a, rep, ord) ==
    [rep EXCEPT
        !.Cols = [i \in 1..a.ncol |-> Summarize(opt, a, i - 1, ord.cats[i])],
        !.Warnings = IF rep.Processed < rep.Rows
                     THEN Append(@, RowCapWarning(rep.Processed, rep.Rows)) ELSE @,
        !.Groups = BuildGroups(opt, a, ord),
        !.Corr = BuildCorr(opt, a)]

\* The orders in which the ranges over the maps of the accumulators can run:
\* one order of the group keys, one of each group's pair keys, one of each
\* column's category keys.
\* sort.Strings of the keys of a map
RECURSIVE SortStrings(_)
SortStrings(S) ==
    IF S = {} THEN <<>>
    ELSE LET m == CHOOSE x \in S : \A y \in S \ {x} : StrLess(x, y)
         IN  <<m>> \o SortStrings(S \ {m})

\* The integers of a set, ascending
RECURSIVE SortInts(_)
SortInts(S) ==
    IF S = {} THEN <<>>
    ELSE LET m == CHOOSE x \in S : \A y \in S : x <= y
         IN  <<m>> \o SortInts(S \ {m})

Reverse(s) == [i \in 1..Len(s) |-> s[Len(s) + 1 - i]]

\* The largest key set of which every visiting order is explored; of a
\* larger key set the ascending and the descending order are.
MaxRangeKeys == 3

KeyOrders(S, sorted) ==
    IF Cardinality(S) <= MaxRangeKeys THEN Perms(S) ELSE {sorted, Reverse(sorted)}

RECURSIVE PermFns(_, _)
PermFns(m, keys) ==
    IF keys = {} THEN {NilMap}
    ELSE LET k == CHOOSE x \in keys : TRUE
         IN  {MapPut(f, k, p) : f \in PermFns(m, keys \ {k}),
                                p \in KeyOrders(DOMAIN m[k], SortInts(DOMAIN m[k]))}

RECURSIVE CatOrders(_, _)
CatOrders(cs, i) ==
    IF i > Len(cs) THEN {<<>>}
    ELSE {<<p>> \o rest : p \in KeyOrders(DOMAIN cs[i].cats, SortStrings(DOMAIN cs[i].cats)),
                          rest \in CatOrders(cs, i + 1)}

RangeOrders(a) ==
    [ groups : KeyOrders(DOMAIN a.groups, SortStrings(DOMAIN a.groups)),
      gp : PermFns(a.gPairs, DOMAIN a.gPairs),
      cats : CatOrders(a.cols, 1) ]

(***************************************************************************)
(* Text: fmt verbs and path helpers                                        *)
(***************************************************************************)

\* A Go string (sequence of characters) as one TLA+ string, and back.
RECURSIVE Str(_)
Str(s) == IF s = <<>> THEN "" ELSE Head(s) \o Str(Tail(s))

Chars(t) == [i \in 1..Len(t) |-> SubSeq(t, i, i)]

\* %d
FmtInt(k) == ToString(k)

\* The decimal digits of k >= 0, left-padded with zeros to width w.
RECURSIVE ZeroPad(_, _)
ZeroPad(k, w) == IF w <= 1 /\ k < 10 THEN ToString(k) ELSE ZeroPad(k \div 10, w - 1) \o ToString(k % 10)

\* x * 10^k for a rational x, one factor at a time so that it stays reduced.
RECURSIVE RScale10(_, _)
RScale10(x, k) ==
    IF k = 0 THEN x
    ELSE IF k > 0 THEN RScale10(RMul(x, RInt(10)), k - 1)
    ELSE RScale10(RDiv(x, RInt(10)), k + 1)

\* The integer nearest to a rational x >= 0, halves to even.
RoundRat(x) ==
    LET f == x.n \div x.d
        rem == x.n % x.d
    IN  IF 2 * rem > x.d \/ (2 * rem = x.d /\ f % 2 = 1) THEN f + 1 ELSE f

\* The largest k in lo..hi with k * k <= n (lo * lo <= n).
RECURSIVE ISqrt(_, _, _)
ISqrt(n, lo, hi) ==
    IF lo >= hi THEN lo
    ELSE LET mid == (lo + hi + 1) \div 2
         IN  IF mid * mid <= n THEN ISqrt(n, mid, hi) ELSE ISqrt(n, lo, mid - 1)

\* The integer nearest to the square root of a rational x >= 0 (x < 2^31).
RoundSqrt(x) ==
    LET f == x.n \div x.d
        k == ISqrt(f, 0, 46340)
    IN  IF f > k * k + k \/ (f = k * k + k /\ 4 * (x.n % x.d) >= x.d) THEN k + 1 ELSE k

\* The text of m / 10^p for an integer m >= 0: p digits after the point.
FixedText(m, p) ==
    IF p = 0 THEN ToString(m)
    ELSE LET unit == Pow10(p)
         IN  ToString(m \div unit) \o "." \o ZeroPad(m % unit, p)

\* %.<p>f of a rational
FmtFixed(x, p) ==
    (IF x.n < 0 THEN "-" ELSE "") \o FixedText(RoundRat(RScale10(RAbs(x), p)), p)

\* %.3f of a correlation value s * sqrt(q)
FmtR(r) ==
    (IF r.s < 0 THEN "-" ELSE "") \o FixedText(RoundSqrt(RScale10(r.q, 6)), 3)

\* floor(log10(x)) for a rational x > 0
RECURSIVE Exp10(_)
Exp10(x) ==
    IF RLeq(RInt(10), x) THEN 1 + Exp10(RDiv(x, RInt(10)))
    ELSE IF RLess(x, ROne) THEN Exp10(RMul(x, RInt(10))) - 1
    ELSE 0

\* m / 10^p without trailing zeros after the point.
RECURSIVE TrimmedText(_, _)
TrimmedText(m, p) ==
    IF p > 0 /\ m % 10 = 0 THEN TrimmedText(m \div 10, p - 1) ELSE FixedText(m, p)

\* %.4g given the four significant digits m (1000..9999) and the decimal
\* exponent e of the leading digit: %e style when e < -4 or e >= 4.
SigText(m, e) ==
    IF e < -4 \/ e >= 4
    THEN TrimmedText(m, 3) \o "e" \o (IF e < 0 THEN "-" ELSE "+") \o ZeroPad(Abs(e), 2)
    ELSE IF e >= 3 THEN ToString(m)
    ELSE TrimmedText(m, 3 - e)

\* Rounding to four digits can carry into a fifth.
Carry(m, e) == IF m >= 10000 THEN SigText(m \div 10, e + 1) ELSE SigText(m, e)

\* %.4g of a rational (or of an infinity)
FmtG(x) ==
    IF x.d = 0 THEN (IF x.n > 0 THEN "+Inf" ELSE "-Inf")
    ELSE IF x.n = 0 THEN "0"
    ELSE LET e == Exp10(RAbs(x))
         IN  (IF x.n < 0 THEN "-" ELSE "") \o Carry(RoundRat(RScale10(RAbs(x), 3 - e)), e)

\* %.4g of math.Sqrt(q)
FmtSqrtG(sq) ==
    IF sq.radicand.n = 0 THEN "0"
    ELSE LET e2 == Exp10(sq.radicand)
             e == IF e2 % 2 = 0 THEN e2 \div 2 ELSE (e2 - 1) \div 2
         IN  Carry(RoundSqrt(RScale10(sq.radicand, 2 * (3 - e))), e)

\* filepath.Base on "/"-separated paths
RECURSIVE TrimSlashes(_)
TrimSlashes(p) ==
    IF Len(p) > 0 /\ p[Len(p)] = "/" THEN TrimSlashes(SubSeq(p, 1, Len(p) - 1)) ELSE p

Base(path) ==
    IF path = <<>> THEN <<".">>
    ELSE LET p == TrimSlashes(path)
             q == SubSeq(p, LastIndex(p, "/") + 2, Len(p))
         IN  IF q = <<>> THEN <<"/">> ELSE q

\* strings.Split(s, "/")
RECURSIVE SplitSlash(_, _)
SplitSlash(s, cur) ==
    IF s = <<>> THEN <<cur>>
    ELSE IF Head(s) = "/" THEN <<cur>> \o SplitSlash(Tail(s), <<>>)
    ELSE SplitSlash(Tail(s), Append(cur, Head(s)))

DotDot == <<".", ".">>

\* filepath.Clean of a relative path, element by element: "" and "." vanish,
\* ".." removes the element before it or stays when there is none.
RECURSIVE CleanElems(_, _)
CleanElems(elems, out) ==
    IF elems = <<>> THEN out
    ELSE LET e == Head(elems)
         IN  IF e = <<>> \/ e = <<".">> THEN CleanElems(Tail(elems), out)
             ELSE IF e = DotDot /\ out # <<>> /\ out[Len(out)] # DotDot
                  THEN CleanElems(Tail(elems), SubSeq(out, 1, Len(out) - 1))
             ELSE CleanElems(Tail(elems), Append(out, e))

\* filepath.Join("xl", rel)
JoinXl(rel) ==
    LET out == CleanElems(SplitSlash(<<"x", "l", "/">> \o rel, <<>>), <<>>)
    IN  IF out = <<>> THEN <<".">> ELSE Join(out, <<"/">>)

\* normalizeRelPath without the removal of the leading slash
normalizeRelPathKeepSlash(rel) ==
    IF HasPrefix(rel, <<"x", "l", "/">>) THEN rel ELSE JoinXl(rel)

\* normalizeRelPath(rel)
normalizeRelPath(rel) ==
    LET r == TrimPrefix(rel, <<"/">>)
    IN  IF HasPrefix(r, <<"x", "l", "/">>) THEN r ELSE JoinXl(r)

(***************************************************************************)
(* Report.Markdown (part_022, lines 704-888)                               *)
(*                                                                         *)
(* The rendered text is the sequence of its lines, each line a string      *)
(* without its final "\n"; two texts are byte-identical iff their line     *)
(* sequences are equal (no character of the alphabet is a newline).        *)
(***************************************************************************)

\* Stand-ins for the three non-ASCII characters of the format strings:
\* the em dash (U+2014), the bullet (U+2022) and the almost-equal sign (U+2248).
EmDash == "--"
Bullet == "*"
Approx == "~="

\* The strings of ss joined by sep, as one string.
RECURSIVE JoinText(_, _)
JoinText(ss, sep) ==
    IF ss = <<>> THEN ""
    ELSE IF Len(ss) = 1 THEN ss[1]
    ELSE ss[1] \o sep \o JoinText(Tail(ss), sep)

\* "Rows: ..." when r.Rows > 0
RowsLines(r) ==
    IF r.Rows > 0
    THEN (IF r.Processed > 0 /\ r.Processed < r.Rows
          THEN <<"Rows: ~" \o FmtInt(r.Rows) \o " (processed " \o FmtInt(r.Processed) \o ")">>
          ELSE <<"Rows: " \o FmtInt(r.Rows)>>)
    ELSE <<>>

\* The tail of a [SCHEMA] line, by kind.
SchemaDetail(c) ==
    IF c.Kind = "numeric" THEN
        " " \o EmDash \o " min " \o FmtG(c.Min) \o ", max " \o FmtG(c.Max)
            \o ", mean " \o FmtG(c.Mean) \o ", std " \o FmtSqrtG(c.Std)
            \o (IF RLess(RZero, c.OutlierThreshold)
                THEN "; outliers: " \o FmtInt(c.OutliersCount) \o " above |z|>"
                         \o FmtFixed(c.OutlierThreshold, 1)
                         \o (IF RLess(RZero, c.OutliersMaxAbsZ)
                             THEN " (max |z|" \o Approx \o FmtFixed(c.OutliersMaxAbsZ, 2) \o ")"
                             ELSE "")
                ELSE "")
    ELSE IF c.Kind = "categorical" /\ Len(c.TopValues) > 0 THEN
        " " \o EmDash \o " top: "
            \o JoinText([i \in 1..Len(c.TopValues) |->
                            Str(safeVal(c.TopValues[i].Value)) \o "("
                                \o FmtInt(c.TopValues[i].Count) \o ")"], ", ")
            \o (IF c.Unique > Len(c.TopValues) THEN "; unique=" \o FmtInt(c.Unique) ELSE "")
    ELSE IF c.Kind = "text" /\ Len(c.ExampleTexts) > 0 THEN
        " " \o EmDash \o " e.g., "
            \o JoinText([i \in 1..Len(c.ExampleTexts) |-> Str(safeVal(c.ExampleTexts[i]))], " | ")
    ELSE ""

\* One [SCHEMA] line
SchemaLine(c) ==
    LET total == c.NonNull + c.Missing
        missPct == IF total > 0 THEN Rat(c.Missing * 100, total) ELSE RZero
        name == Str(safeName(c.Name))
                    \o (IF c.Unit # <<>> THEN " [" \o Str(c.Unit) \o "]" ELSE "")
    IN  "- " \o name \o ": " \o c.Kind \o " (non-null " \o FmtInt(c.NonNull)
            \o ", missing " \o FmtFixed(missPct, 1) \o "%)" \o SchemaDetail(c)

MaxMetricLines == 6
MaxGroupPairLines == 8
MaxTopPairs == 10
MaxCellWidth == 80

\* The lines of one group in [GROUP-BY SUMMARY]
GroupLines(g) ==
    LET keys == Cap(SortStrings(DOMAIN g.Metrics), MaxMetricLines)
    IN  <<"- " \o Str(g.Key) \o " (n=" \o FmtInt(g.Size) \o ")">>
        \o [i \in 1..Len(keys) |->
               "  " \o Bullet \o " " \o Str(keys[i]) \o ": mean " \o FmtG(g.Metrics[keys[i]].Mean)
                   \o " (min " \o FmtG(g.Metrics[keys[i]].Min)
                   \o ", max " \o FmtG(g.Metrics[keys[i]].Max) \o ")"]

RECURSIVE FlatMap(_, _)
FlatMap(F(_), s) == IF s = <<>> THEN <<>> ELSE F(Head(s)) \o FlatMap(F, Tail(s))

\* The lines of one group in [PER-GROUP CORRELATIONS]
GroupPairLines(g) ==
    IF Len(g.CorrPairs) = 0 THEN <<>>
    ELSE LET ps == Cap(g.CorrPairs, MaxGroupPairLines)
         IN  <<"- " \o Str(g.Key) \o ":">>
             \o [i \in 1..Len(ps) |->
                    "  " \o Bullet \o " " \o Str(ps[i].A) \o " ~ " \o Str(ps[i].B)
                        \o ": r=" \o FmtR(ps[i].R)]

\* The pairs i < j of the matrix, row by row
MatrixPairs(corr) ==
    LET n == Len(corr.Columns)
        at(i, j) == [A |-> corr.Columns[i], B |-> corr.Columns[j], R |-> corr.Values[i][j]]
        RowPairs(i) == [k \in 1..(n - i) |-> at(i, i + k)]
    IN  FlatMap(RowPairs, [i \in 1..n |-> i])

\* The lines of [CORRELATIONS]: the top pairs by |r|
CorrLines(corr) ==
    LET ps == Cap(SortSlice(PairLess, MatrixPairs(corr)), MaxTopPairs)
    IN  [i \in 1..Len(ps) |->
            "- " \o Str(ps[i].A) \o " ~ " \o Str(ps[i].B) \o ": r=" \o FmtR(ps[i].R)]

\* One cell of the sample table
SampleCell(row, i) ==
    LET val == IF i <= Len(row) THEN row[i] ELSE <<>>
        cut == IF Len(val) > MaxCellWidth
               THEN SubSeq(val, 1, MaxCellWidth - 3) \o <<".", ".", ".">> ELSE val
    IN  Str(safeVal(cut))

SectionSamples == "[HEAD AND SAMPLE ROWS]"

\* The lines of [HEAD AND SAMPLE ROWS]
SampleLines(r) ==
    LET n == Len(r.Cols)
    IN  <<"", SectionSamples,
          "| " \o JoinText([i \in 1..n |-> Str(safeName(r.Cols[i].Name))], " | ") \o " |",
          "| " \o JoinText([i \in 1..n |-> "---"], " | ") \o " |">>
        \o [k \in 1..Len(r.Samples) |->
               "| " \o JoinText([i \in 1..n |-> SampleCell(r.Samples[k], i)], " | ") \o " |"]

\* Report.Markdown()
Markdown(r) ==
    <<"[DATASET SUMMARY]">>
    \o (IF r.Name # <<>> THEN <<"File: " \o Str(r.Name)>> ELSE <<>>)
    \o RowsLines(r)
    \o <<"Columns: " \o FmtInt(Len(r.Cols)), "", "[SCHEMA]">>
    \o [i \in 1..Len(r.Cols) |-> SchemaLine(r.Cols[i])]
    \o (IF Len(r.Groups) > 0
        THEN <<"", "[GROUP-BY SUMMARY]">> \o FlatMap(GroupLines, r.Groups) ELSE <<>>)
    \o (IF \E i \in 1..Len(r.Groups) : Len(r.Groups[i].CorrPairs) > 0
        THEN <<"", "[PER-GROUP CORRELATIONS]">> \o FlatMap(GroupPairLines, r.Groups) ELSE <<>>)
    \o (IF r.Corr # NilCorr /\ Len(r.Corr.Columns) >= 2
        THEN <<"", "[CORRELATIONS]">> \o CorrLines(r.Corr) ELSE <<>>)
    \o (IF Len(r.Samples) > 0 THEN SampleLines(r) ELSE <<>>)
    \o (IF Len(r.Warnings) > 0
        THEN <<"", "[NOTES]">> \o [i \in 1..Len(r.Warnings) |-> "- " \o r.Warnings[i]]
        ELSE <<>>)

(***************************************************************************)
(* Sheet resolution of AnalyzeXLSX (xlsx.go, lines 36-80)                   *)
(***************************************************************************)

\* The first sheet whose name matches sheetName case-insensitively (0: none)
MatchByName(sheets, sheetName) ==
    LET hits == {i \in 1..Len(sheets) : EqualFold(sheets[i].Name, sheetName)}
    IN  IF hits = {} THEN 0 ELSE CHOOSE i \in hits : \A k \in hits : i <= k

\* The first sheet whose sheetId is idx (0: none)
MatchByID(sheets, idx) ==
    LET hits == {i \in 1..Len(sheets) : sheets[i].SheetID = idx}
    IN  IF hits = {} THEN 0 ELSE CHOOSE i \in hits : \A k \in hits : i <= k

\* target after the loop over sheets when a name is requested
TargetByName(sheets, rels, sheetName) ==
    LET i == MatchByName(sheets, sheetName)
    IN  IF sheetName # <<>> /\ i # 0 /\ HasKey(rels, sheets[i].RID)
        THEN normalizeRelPath(rels[sheets[i].RID]) ELSE <<>>

\* filepath.Join("xl", "worksheets", fmt.Sprintf("sheet%d.xml", idx))
GuessPath(idx) == Chars("xl/worksheets/sheet" \o FmtInt(idx) \o ".xml")

\* The fallback by 1-based index
TargetByIndex(sheets, rels, sheetIndex) ==
    LET idx == IF sheetIndex <= 0 THEN 1 ELSE sheetIndex
        i == MatchByID(sheets, idx)
        rid == IF i # 0 THEN sheets[i].RID ELSE <<>>
    IN  IF rid # <<>> /\ HasKey(rels, rid) THEN normalizeRelPath(rels[rid]) ELSE GuessPath(idx)

\* fmt.Errorf("sheet '%s' not found in workbook '%s'.\nAvailable sheets: %s", ...)
SheetNotFound(sheets, sheetName, path) ==
    "sheet '" \o Str(sheetName) \o "' not found in workbook '" \o Str(Base(path))
        \o "'.\nAvailable sheets: "
        \o Str(Join([i \in 1..Len(sheets) |-> sheets[i].Name], <<",", " ">>))

\* A nil error
NoError == ""

\* An unknown name falling back to the index
ResolveSheetFallback(sheets, rels, sheetName, sheetIndex, path) ==
    LET byName == TargetByName(sheets, rels, sheetName)
    IN  IF byName = <<>>
        THEN [target |-> TargetByIndex(sheets, rels, sheetIndex), err |-> NoError]
        ELSE [target |-> byName, err |-> NoError]

\* Lines 36-80: the path of the sheet to read, or the error
ResolveSheet(sheets, rels, sheetName, sheetIndex, path) ==
    LET byName == TargetByName(sheets, rels, sheetName)
    IN  IF sheetName # <<>> /\ byName = <<>>
        THEN [target |-> <<>>, err |-> SheetNotFound(sheets, sheetName, path)]
        ELSE IF byName = <<>>
        THEN [target |-> TargetByIndex(sheets, rels, sheetIndex), err |-> NoError]
        ELSE [target |-> byName, err |-> NoError]

\* readZipFile: the content of the named entry, empty when there is none.
\* The content of a file is what it holds before its data rows: nothing, or
\* the header (a sheet's header row, a delimited-text file's header line).
readZipFile(files, name) == IF HasKey(files, name) THEN files[name] ELSE <<>>

\* sniffDelimiter(path): the tab for a name ending in ".tsv", else the comma
sniffDelimiter(path) == IF HasSuffix(ToLower(path), <<".", "t", "s", "v">>) THEN Tab ELSE ","

\* r.Comma: Options.Delimiter, or sniffDelimiter(path) when it is 0
Delim(opt, path) == IF opt.Delimiter = NoRune THEN sniffDelimiter(path) ELSE opt.Delimiter

\* The position of the first c in s, 0 when there is none
RECURSIVE IndexOf(_, _, _)
IndexOf(s, c, i) ==
    IF i > Len(s) THEN 0 ELSE IF s[i] = c THEN i ELSE IndexOf(s, c, i + 1)

\* The fields of one line as encoding/csv cuts them with TrimLeadingSpace: the
\* white space before a field is skipped, the field runs to the next
\* delimiter. The lines of the model hold no quote.
RECURSIVE SplitFields(_, _)
SplitFields(line, delim) ==
    IF IndexOf(TrimLeft(line), delim, 1) = 0 THEN <<TrimLeft(line)>>
    ELSE <<SubSeq(TrimLeft(line), 1, IndexOf(TrimLeft(line), delim, 1) - 1)>>
            \o SplitFields(SubSeq(TrimLeft(line), IndexOf(TrimLeft(line), delim, 1) + 1,
                                   Len(TrimLeft(line))), delim)

\* The records of a sequence of lines: empty lines are skipped
RECURSIVE CsvRecords(_, _)
CsvRecords(lines, delim) ==
    IF lines = <<>> THEN <<>>
    ELSE IF Head(lines) = <<>> THEN CsvRecords(Tail(lines), delim)
    ELSE <<SplitFields(Head(lines), delim)>> \o CsvRecords(Tail(lines), delim)

\* What encoding/csv can yield as a record: at least one field, and no field
\* starting with a space (TrimLeadingSpace).
CsvYields(rec) ==
    Len(rec) >= 1 /\ \A i \in 1..Len(rec) : HasPrefix(rec[i], <<" ">>) = FALSE

\* The row loop up to the end of one row: rep.Rows++, the row cap,
\* rep.Processed++, the sample rows and the accumulators.
RowStep(src, opt, st, rec0) ==
    LET rec == PadRow(rec0, st.acc.ncol)
        rep1 == [st.rep EXCEPT !.Rows = @ + 1]
    IN  IF ~UnderRowCap(opt, rep1.Processed) THEN [acc |-> st.acc, rep |-> rep1]
        ELSE [ acc |-> ProcessRow(src, opt, st.acc, rec),
               rep |-> [rep1 EXCEPT
                          !.Processed = @ + 1,
                          !.Samples = IF Len(@) < SampleLimit(src, opt)
                                      THEN Append(@, RowCopy(rec, st.acc.ncol)) ELSE @] ]

\* The row loop over a whole sequence of rows
RECURSIVE RunRows(_, _, _, _)
RunRows(src, opt, st, recs) ==
    IF recs = <<>> THEN st ELSE RunRows(src, opt, RowStep(src, opt, st, Head(recs)), Tail(recs))

\* The state of the loop after the header
AfterHeader(path, hdr) == [acc |-> InitAcc(hdr), rep |-> EmptyReport(Base(path))]

(***************************************************************************)
(* Inputs                                                                  *)
(***************************************************************************)

\* The largest number of data rows a file holds.
MaxFileRows == 3

\* A sequence of cells from their texts
Cells(texts) == [i \in 1..Len(texts) |-> Chars(texts[i])]

CsvPath == Chars("data/metrics.csv")
XlsxPath == Chars("data/book.xlsx")
Sheet1Path == Chars("xl/worksheets/sheet1.xml")
Sheet2Path == Chars("xl/worksheets/sheet2.xml")
Sheet4Path == Chars("xl/worksheets/sheet4.xml")

\* One call of the analysis: the source kind, the path, the Options, the sheet
\* arguments, the parsed workbook (sheets, rels), the files by name with the
\* rows before their data rows, and the data rows the row source can yield.
Input(src, path, opt, sheetName, sheetIndex, sheets, rels, files, rowset) ==
    [ src |-> src, path |-> path, opt |-> opt, sheetName |-> sheetName,
      sheetIndex |-> sheetIndex, sheets |-> sheets, rels |-> rels, files |-> files,
      rowset |-> rowset ]

\* A workbook with the single sheet "Sheet1"
OneSheet == << [Name |-> Chars("Sheet1"), SheetID |-> 1, RID |-> Chars("rId1")] >>
OneRel == Chars("rId1") :> Chars("worksheets/sheet1.xml")

\* The same table as a delimited-text file and as the first sheet of a workbook
Table(hdr, opt, rowset) ==
    { Input("csv", CsvPath, opt, <<>>, 0, <<>>, NilMap,
            CsvPath :> <<Join(hdr, <<",">>)>>, rowset),
      Input("xlsx", XlsxPath, opt, <<>>, 0, OneSheet, OneRel, Sheet1Path :> <<hdr>>, rowset) }

\* A group column, a numeric column with a unit, a text column; rows shorter
\* and longer than the header, empty cells, text and dates in the numeric
\* column, a row without cells.
MixedHeader == Cells(<<"g", "x (g/L)", "note">>)
MixedRows ==
    { Cells(<<"a", "1", "hi">>), Cells(<<"b", "2,5">>), Cells(<<"a", "", "x|y", "9">>),
      Cells(<<"", "n/a", "2020-02-29">>), <<>> }
MixedOptions ==
    { [DefaultOptions EXCEPT !.GroupBy = <<Chars("g")>>],
      [DefaultOptions EXCEPT !.MaxRows = 2, !.SampleRows = 0,
                             !.GroupBy = <<Chars(" G "), Chars("zz")>>],
      [DefaultOptions EXCEPT !.MaxRows = 1, !.SampleRows = 1] }

\* Three numeric columns, one with a unit, with missing and non-numeric cells
NumericHeader == Cells(<<"a", "b", "c (g/L)">>)
NumericRows ==
    { Cells(<<"1", "1", "2">>), Cells(<<"2", "3", "1">>), Cells(<<"", "2", "2">>),
      Cells(<<"3", "x", "1">>) }
NumericOptions ==
    { [DefaultOptions EXCEPT !.MaxRows = 0, !.Correlations = TRUE],
      [DefaultOptions EXCEPT !.MaxRows = 2, !.SampleRows = -1, !.Correlations = TRUE] }

\* Two columns of one name next to a group column
TwinHeader == Cells(<<"g", "x", "x", "y">>)
TwinRows ==
    { Cells(<<"k", "1", "2", "1">>), Cells(<<"k", "2", "1", "2">>), Cells(<<"m", "3", "3", "3">>) }
TwinOptions ==
    { [DefaultOptions EXCEPT !.GroupBy = <<Chars("g")>>, !.Correlations = TRUE,
                             !.CorrPerGroup = TRUE],
      [DefaultOptions EXCEPT !.GroupBy = <<Chars("g")>>, !.CorrPerGroup = TRUE] }

\* A workbook of three declared sheets: "Data" with a workbook-relative
\* target, "Other" with an absolute target, "Lost" without a relationship;
\* sheet4.xml is not declared and its first row has no cells.
BookSheets ==
    << [Name |-> Chars("Data"), SheetID |-> 1, RID |-> Chars("rId1")],
       [Name |-> Chars("Other"), SheetID |-> 2, RID |-> Chars("rId2")],
       [Name |-> Chars("Lost"), SheetID |-> 3, RID |-> Chars("rId9")] >>
BookRels ==
    (Chars("rId1") :> Chars("worksheets/sheet1.xml"))
        @@ (Chars("rId2") :> Chars("/xl/worksheets/sheet2.xml"))
DataHeader == Cells(<<"a", "b">>)
OtherHeader == Cells(<<"p">>)
BookFiles ==
    (Sheet1Path :> <<DataHeader>>) @@ (Sheet2Path :> <<OtherHeader>>) @@ (Sheet4Path :> << <<>> >>)
BookRows == { Cells(<<"1", "2">>), Cells(<<"x">>) }
BookNames == { <<>>, Chars("other"), Chars("Nope"), Chars("Lost") }
BookIndexes == { 0, 2, 3, 4 }

Books ==
    { Input("xlsx", XlsxPath, DefaultOptions, nm, ix, BookSheets, BookRels, BookFiles, BookRows) :
        nm \in BookNames, ix \in BookIndexes }

\* A workbook whose sheet ids do not follow the order of the sheets, as after
\* a sheet was deleted or moved: the first sheet has id 3, the second id 1.
GapSheets ==
    << [Name |-> Chars("First"), SheetID |-> 3, RID |-> Chars("rId1")],
       [Name |-> Chars("Second"), SheetID |-> 1, RID |-> Chars("rId2")] >>
GapRels ==
    (Chars("rId1") :> Chars("worksheets/sheet1.xml"))
        @@ (Chars("rId2") :> Chars("worksheets/sheet2.xml"))
GapIndexes == { -1, 1, 2 }
GapBooks ==
    { Input("xlsx", XlsxPath, DefaultOptions, <<>>, ix, GapSheets, GapRels, BookFiles, BookRows) :
        ix \in GapIndexes }

\* A delimited-text file without any record
EmptyFiles ==
    { Input("csv", CsvPath, DefaultOptions, <<>>, 0, <<>>, NilMap, CsvPath :> <<>>, BookRows) }

\* Delimited-text files whose fields are separated by ';' or by the tab, under
\* a name that ends in ".csv" or in ".tsv", read with the delimiter left to
\* the analysis or named by the caller. The data rows are the lines of the
\* file as the reader cuts them.
TsvPath == Chars("data/metrics.tsv")
Separators == { ";", Tab }
SepHeader == Cells(<<"a", "b">>)
SepRows == { Cells(<<"1", "2">>) }
SepFile(path, opt, sep) ==
    Input("csv", path, opt, <<>>, 0, <<>>, NilMap, path :> <<Join(SepHeader, <<sep>>)>>,
          { SplitFields(Join(r, <<sep>>), Delim(opt, path)) : r \in SepRows })
SepFiles ==
    { SepFile(path, [DefaultOptions EXCEPT !.Delimiter = d], sep) :
        path \in {CsvPath, TsvPath}, d \in {NoRune, ";"}, sep \in Separators }

Inputs ==
    UNION { Table(MixedHeader, o, MixedRows) : o \in MixedOptions }
        \cup UNION { Table(NumericHeader, o, NumericRows) : o \in NumericOptions }
        \cup UNION { Table(TwinHeader, o, TwinRows) : o \in TwinOptions }
        \cup Books \cup GapBooks \cup EmptyFiles \cup SepFiles

(***************************************************************************)
(* The analysis as a state machine                                         *)
(***************************************************************************)

VARIABLES
    in,       \* the arguments and the files of the call
    pc,       \* "start", "header", "rows", "done" (returned a Report), "error"
    target,   \* AnalyzeXLSX: the path of the sheet inside the archive
    rows,     \* the data rows the row source has yielded so far
    acc,      \* cols, gbIndex, numericVals, pair, groups, gPairs
    rep,      \* the Report under construction, then the one returned
    err       \* the error returned

vars == <<in, pc, target, rows, acc, rep, err>>

Init ==
    /\ in \in Inputs
    /\ pc = "start"
    /\ target = <<>>
    /\ rows = <<>>
    /\ acc = InitAcc(<<>>)
    /\ rep = NilReport
    /\ err = NoError

\* os.Open / the archive, and for a workbook the resolution of the sheet
Open ==
    /\ pc = "start"
    /\ IF in.src = "csv"
       THEN /\ pc' = "header"
            /\ UNCHANGED <<target, err>>
       ELSE LET r == ResolveSheet(in.sheets, in.rels, in.sheetName, in.sheetIndex, in.path)
            IN  /\ target' = r.target
                /\ err' = r.err
                /\ pc' = IF r.err = NoError THEN "header" ELSE "error"
    /\ UNCHANGED <<in, rows, acc, rep>>

\* The records before the data rows of the file the call reads: the header
\* line of a delimited-text file cut at r.Comma, the header row of a sheet
Head0(i, t) ==
    IF i.src = "csv" THEN CsvRecords(readZipFile(i.files, i.path), Delim(i.opt, i.path))
    ELSE readZipFile(i.files, t)

\* The header: without one (end of input, or a row without cells) the call
\* returns the empty Report and a nil error
ReadHeader ==
    /\ pc = "header"
    /\ LET head == Head0(in, target)
       IN  IF head = <<>> \/ Len(head[1]) = 0
           THEN /\ rep' = EmptyReport(Base(in.path))
                /\ pc' = "done"
                /\ UNCHANGED acc
           ELSE /\ rep' = AfterHeader(in.path, head[1]).rep
                /\ acc' = AfterHeader(in.path, head[1]).acc
                /\ pc' = "rows"
    /\ UNCHANGED <<in, target, rows, err>>

\* One data row
ReadRow ==
    /\ pc = "rows"
    /\ Len(rows) < MaxFileRows
    /\ \E rec \in in.rowset :
          /\ in.src = "csv" => CsvYields(rec)
          /\ rows' = Append(rows, rec)
          /\ \E st \in {RowStep(in.src, in.opt, [acc |-> acc, rep |-> rep], rec)} :
                acc' = st.acc /\ rep' = st.rep
    /\ UNCHANGED <<in, pc, target, err>>

\* The end of the input: summaries, warnings, groups, correlation matrix
Finish ==
    /\ pc = "rows"
    /\ \E ord \in RangeOrders(acc) : rep' = Finalize(in.opt, acc, rep, ord)
    /\ pc' = "done"
    /\ UNCHANGED <<in, target, rows, acc, err>>

Next == Open \/ ReadHeader \/ ReadRow \/ Finish

Spec == Init /\ [][Next]_vars

(***************************************************************************)
(* The analysis of whole files: the rows are read in the order of the      *)
(* file, and the summaries are built when the last row has been read.      *)
(***************************************************************************)

\* A file of the given header and data rows, as delimited text (the data
\* are its lines) and as the first sheet of a workbook (the data are its rows)
FileInput(src, path, opt, sheets, rels, files, data) ==
    [ src |-> src, path |-> path, opt |-> opt, sheetName |-> <<>>, sheetIndex |-> 0,
      sheets |-> sheets, rels |-> rels, files |-> files, rowset |-> {}, data |-> data ]

BothKinds(hdr, opt, recs) ==
    { FileInput("csv", CsvPath, opt, <<>>, NilMap, CsvPath :> <<Join(hdr, <<",">>)>>,
                [i \in 1..Len(recs) |-> Join(recs[i], <<",">>)]),
      FileInput("xlsx", XlsxPath, opt, OneSheet, OneRel, Sheet1Path :> <<hdr>>, recs) }

Digits == Chars("0123456789")

\* The group key of number n: g01, g02, ...
KeyOf(n) == <<"g", Digits[(n \div 10) + 1], Digits[(n % 10) + 1]>>

\* Twenty-two groups in 26 rows: g22 three times, g05 and g13 twice, the
\* others once, in no order; the second column is numeric.
ManyGroupsOrder ==
    << 22, 5, 13, 1, 9, 17, 2, 10, 18, 3, 11, 19, 22, 4, 12, 20, 6, 14, 21, 5, 7, 15, 22, 8,
       16, 13 >>
ManyGroupsHeader == Cells(<<"g", "v">>)
ManyGroupsRows ==
    [i \in 1..Len(ManyGroupsOrder) |-> <<KeyOf(ManyGroupsOrder[i]), <<Digits[(i % 5) + 1]>>>>]
ManyGroupsFiles ==
    BothKinds(ManyGroupsHeader, [DefaultOptions EXCEPT !.GroupBy = <<Chars("g")>>],
              ManyGroupsRows)

\* One numeric column with a value far from the others: seven values, seven
\* values and a cell that is no number, eight values, eight and nine values
\* of which more than half are equal; with outlier counting and the threshold
\* left 0, negative, small, and large.
OneColumn(texts) == [i \in 1..Len(texts) |-> <<Chars(texts[i])>>]
FarValueHeader == Cells(<<"v">>)
FarValueRows ==
    { OneColumn(<<"1", "2", "3", "4", "5", "6", "100">>),
      OneColumn(<<"1", "2", "3", "n/a", "4", "5", "6", "100">>),
      OneColumn(<<"1", "2", "3", "4", "5", "6", "7", "100">>),
      OneColumn(<<"5", "5", "100", "5", "5", "5", "7", "5">>),
      OneColumn(<<"9", "3", "-40", "5", "x", "5,5", "7", "1", "6", "4">>) }
Thresholds == { RZero, RInt(-1), Rat(1, 2), RInt(100) }
FarValueFiles ==
    UNION { BothKinds(FarValueHeader,
                      [DefaultOptions EXCEPT !.Outliers = TRUE, !.OutlierThreshold = thr], recs) :
              thr \in Thresholds, recs \in FarValueRows }

\* A group column and columns with units in the header: degrees Fahrenheit,
\* ug/L, g/L, g/L without any number, and a unit without a target; with
\* missing cells and cells that are no numbers.
UnitsHeader == Cells(<<"g", "t (" \o Degree \o "F)", "c (ug/L)", "m (g/L)", "u (g/L)", "w (kg)">>)
UnitsRows ==
    << Cells(<<"a", "32", "100", "0.1", "x", "5">>),
       Cells(<<"b", "41", "n/a", "0.2", "y", "6">>),
       Cells(<<"a", "50", "200", "", "x", "7">>),
       Cells(<<"b", "23", "300", "0.3", "y">>) >>
UnitsOptions ==
    { [DefaultOptions EXCEPT !.GroupBy = <<Chars("g")>>, !.Correlations = TRUE,
                             !.CorrPerGroup = TRUE, !.Outliers = TRUE, !.UnitNormalize = un] :
        un \in BOOLEAN }
UnitsFiles == UNION { BothKinds(UnitsHeader, o, UnitsRows) : o \in UnitsOptions }

\* Cells that spell the values that are no numbers, next to a group column:
\* a column of NaN alone, a column of numbers and infinities
NoNumbersHeader == Cells(<<"g", "v", "w">>)
NoNumbersRows ==
    << Cells(<<"a", "NaN", "1">>), Cells(<<"a", "nan", "Inf">>), Cells(<<"b", "NaN", "-Infinity">>),
       Cells(<<"b", "", "2">>) >>
NoNumbersOptions ==
    { DefaultOptions,
      [DefaultOptions EXCEPT !.GroupBy = <<Chars("g")>>, !.Correlations = TRUE,
                             !.CorrPerGroup = TRUE] }
NoNumbersFiles == UNION { BothKinds(NoNumbersHeader, o, NoNumbersRows) : o \in NoNumbersOptions }

\* Columns of mixed cells: as many numbers as texts, fewer numbers than
\* texts, as many dates as texts, texts longer than a category alone, no cell
\* at all, as many numbers as dates, more dates than numbers and texts.
LongText == [i \in 1..(MaxCatLen + 1) |-> "a"]
KindsHeader == Cells(<<"n", "c", "d", "t", "e", "m", "s">>)
KindsRows ==
    << Cells(<<"1", "x", "2020-01-02">>) \o <<LongText>> \o Cells(<<"", "1", "2021-03-04">>),
       Cells(<<"n/a", "y", "nope">>) \o <<LongText>> \o Cells(<<"", "2020-01-02", "7">>),
       Cells(<<"2", "3", "2020-01-03", "", "", "5", "2021-03-05">>),
       Cells(<<"x", "x", "zz">>) \o <<LongText>> \o Cells(<<"", "2020-01-05", "q">>) >>
KindsFiles == BothKinds(KindsHeader, DefaultOptions, KindsRows)

\* A group column and six numeric columns: 15 pairs of columns in the whole
\* table and in the group k of three rows, 10 in the group m of two rows,
\* where the column c does not vary
PairsHeader == Cells(<<"g", "a", "b", "c", "d", "e", "f">>)
PairsRows ==
    << Cells(<<"k", "1", "2", "3", "1", "2", "1">>),
       Cells(<<"m", "1", "1", "1", "1", "1", "1">>),
       Cells(<<"k", "2", "4", "2", "3", "1", "1">>),
       Cells(<<"k", "3", "6", "1", "2", "3", "2">>),
       Cells(<<"m", "2", "3", "1", "2", "2", "2">>) >>
PairsFiles ==
    BothKinds(PairsHeader,
              [DefaultOptions EXCEPT !.GroupBy = <<Chars("g")>>, !.Correlations = TRUE,
                                     !.CorrPerGroup = TRUE], PairsRows)

\* A group column, a numeric column and a column with more texts than
\* numbers, its two numbers in the rows of one group
StrayHeader == Cells(<<"g", "x", "y">>)
StrayRows ==
    << Cells(<<"k", "1", "1">>), Cells(<<"k", "2", "3">>), Cells(<<"k", "3", "a">>),
       Cells(<<"m", "1", "b">>), Cells(<<"m", "2", "c">>) >>
StrayFiles ==
    BothKinds(StrayHeader,
              [DefaultOptions EXCEPT !.GroupBy = <<Chars("g")>>, !.Correlations = TRUE,
                                     !.CorrPerGroup = TRUE], StrayRows)

Files ==
    ManyGroupsFiles \cup FarValueFiles \cup UnitsFiles \cup NoNumbersFiles \cup KindsFiles
        \cup PairsFiles \cup StrayFiles

\* The records of the data of the file, as the row source yields them
DataRecords(i) ==
    IF i.src = "csv" THEN CsvRecords(i.data, Delim(i.opt, i.path)) ELSE i.data

FileInit ==
    /\ in \in Files
    /\ pc = "start"
    /\ target = <<>>
    /\ rows = <<>>
    /\ acc = InitAcc(<<>>)
    /\ rep = NilReport
    /\ err = NoError

\* The next data row of the file
ReadNext ==
    /\ pc = "rows"
    /\ Len(rows) < Len(DataRecords(in))
    /\ \E rec \in {DataRecords(in)[Len(rows) + 1]} :
          /\ rows' = Append(rows, rec)
          /\ \E st \in {RowStep(in.src, in.opt, [acc |-> acc, rep |-> rep], rec)} :
                acc' = st.acc /\ rep' = st.rep
    /\ UNCHANGED <<in, pc, target, err>>

\* io.EOF: the end of the file
FinishAtEnd ==
    /\ Len(rows) = Len(DataRecords(in))
    /\ Finish

FileNext == Open \/ ReadHeader \/ ReadNext \/ FinishAtEnd

FileSpec == FileInit /\ [][FileNext]_vars

(***************************************************************************)
(* Properties                                                              *)
(***************************************************************************)

\* A call that returned a Report built from a header
Analyzed == pc = "done" /\ acc.ncol > 0

RECURSIVE SumSizes(_)
SumSizes(gs) == IF Len(gs) = 0 THEN 0 ELSE Head(gs).Size + SumSizes(Tail(gs))

RECURSIVE SumAccSizes(_, _)
SumAccSizes(groups, keys) ==
    IF keys = {} THEN 0
    ELSE LET k == CHOOSE x \in keys : TRUE
         IN  groups[k].size + SumAccSizes(groups, keys \ {k})

Min2(a, b) == IF a < b THEN a ELSE b

\* C1: every column summary of a returned Report satisfies NonNull + Missing
\* == Processed, whatever the header, the rows (shorter or longer than the
\* header included) and the Options, for both kinds of input; the column
\* accumulators satisfy it after every row.
ConservationOfCells ==
    /\ pc = "rows" =>
          \A i \in 1..acc.ncol : acc.cols[i].nonNil + acc.cols[i].miss = rep.Processed
    /\ pc = "done" =>
          \A i \in 1..Len(rep.Cols) : rep.Cols[i].NonNull + rep.Cols[i].Missing = rep.Processed

\* A Report over three processed rows, one shorter and one longer than the
\* header, with a column that has both missing and non-missing cells
ConservationWitness ==
    /\ Analyzed
    /\ rep.Processed >= 3
    /\ \E i \in 1..Len(rows) : Len(rows[i]) < acc.ncol
    /\ \E i \in 1..Len(rows) : Len(rows[i]) > acc.ncol
    /\ \E i \in 1..Len(rep.Cols) : rep.Cols[i].Missing > 0 /\ rep.Cols[i].NonNull > 0

\* C2: Rows is the number of data rows the row source yielded; Processed is
\* min(Rows, MaxRows) when MaxRows > 0 and Rows otherwise; Warnings holds
\* exactly "processed only <Processed>/<Rows> rows due to MaxRows" when
\* Processed < Rows and nothing otherwise.
RowCounts ==
    pc \in {"rows", "done"} =>
        /\ rep.Rows = Len(rows)
        /\ rep.Processed = IF in.opt.MaxRows > 0 THEN Min2(Len(rows), in.opt.MaxRows)
                           ELSE Len(rows)
        /\ pc = "done" =>
              /\ rep.Processed < rep.Rows =>
                    rep.Warnings = << "processed only " \o ToString(rep.Processed) \o "/"
                                          \o ToString(rep.Rows) \o " rows due to MaxRows" >>
              /\ rep.Processed >= rep.Rows => Len(rep.Warnings) = 0
              /\ (rep.Rows = 3 /\ rep.Processed = 2) =>
                    rep.Warnings = <<"processed only 2/3 rows due to MaxRows">>

\* A Report of three rows cut at MaxRows = 2, with its warning
RowCountsWitness ==
    /\ Analyzed
    /\ in.opt.MaxRows = 2
    /\ rep.Rows = 3
    /\ rep.Processed = 2
    /\ Len(rep.Warnings) = 1

\* C3: each processed row increments the size of at most one group: the sizes
\* of the groups add up to at most Processed, in the accumulators after every
\* row and in Report.Groups.
GroupSizes ==
    /\ pc = "rows" => SumAccSizes(acc.groups, DOMAIN acc.groups) <= rep.Processed
    /\ pc = "done" => SumSizes(rep.Groups) <= rep.Processed

\* A Report with two groups over three processed rows
GroupSizesWitness ==
    /\ Analyzed
    /\ Len(in.opt.GroupBy) > 0
    /\ rep.Processed >= 3
    /\ Len(rep.Groups) >= 2
    /\ SumSizes(rep.Groups) = rep.Processed

\* The names of the numeric-kind columns of a Report, in column order
RECURSIVE NumericNames(_)
NumericNames(cs) ==
    IF Len(cs) = 0 THEN <<>>
    ELSE (IF Head(cs).Kind = "numeric" THEN <<Head(cs).Name>> ELSE <<>>) \o NumericNames(Tail(cs))

\* -1 <= r <= 1 for r = s * sqrt(q)
InUnitRange(r) == r.s \in {-1, 0, 1} /\ RLeq(RZero, r.q) /\ RLeq(r.q, ROne)

\* C4: with Correlations set and at least two numeric-kind columns, Report.Corr
\* is a square matrix over exactly the numeric-kind columns in column order,
\* its diagonal is 1, it is symmetric, and every off-diagonal value is in
\* [-1, 1].
CorrMatrixShape ==
    (pc = "done" /\ in.opt.Correlations /\ Len(NumericNames(rep.Cols)) >= 2) =>
        LET n == Len(NumericNames(rep.Cols))
            m == rep.Corr.Values
        IN  /\ rep.Corr.Columns = NumericNames(rep.Cols)
            /\ Len(m) = n
            /\ \A i \in 1..n : Len(m[i]) = n /\ m[i][i] = CorrOne
            /\ \A i \in 1..n : \A j \in 1..n : m[i][j] = m[j][i]
            /\ \A i \in 1..n : \A j \in 1..n : InUnitRange(m[i][j])

\* A matrix over three numeric columns with a negative off-diagonal value
\* strictly between -1 and 0
CorrMatrixWitness ==
    /\ Analyzed
    /\ in.opt.Correlations
    /\ Len(rep.Corr.Columns) = 3
    /\ \E i \in 1..3 : \E j \in 1..3 :
          /\ rep.Corr.Values[i][j].s = -1
          /\ RLess(rep.Corr.Values[i][j].q, ROne)

\* The cell of column j (0-based) in a row, after padding
CellOf(rec, j) == PadRow(rec, acc.ncol)[j + 1]

\* The rows processed so far: the first MaxRows of them under a cap
ProcessedRows == SubSeq(rows, 1, rep.Processed)

\* The unit that decides the normalization of cell j of processed row i: the
\* unit of the header, else "%" once a cell of the column held a "%"
OrigUnitAt(j, i) ==
    LET hu == splitUnits(TrimSpace(Head0(in, target)[1][j + 1])).unit
    IN  IF Len(hu) > 0 THEN hu
        ELSE IF \E k \in 1..i : Contains(TrimSpace(CellOf(ProcessedRows[k], j)), "%")
             THEN UnitPercent
        ELSE <<>>

\* The number parsed from cell j of processed row i, counted from the text
NumberAt(j, i) ==
    LET v == TrimSpace(CellOf(ProcessedRows[i], j))
        p == parseNumeric(v, <<>>, in.opt)
        u == OrigUnitAt(j, i)
        nu == normalizeUnit(p.x, u, in.opt)
    IN  IF Len(v) = 0 \/ ~p.ok THEN [ok |-> FALSE, x |-> RZero]
        ELSE IF in.opt.UnitNormalize /\ Len(u) > 0 /\ nu.ok THEN [ok |-> TRUE, x |-> nu.x]
        ELSE [ok |-> TRUE, x |-> p.x]

\* The sum of f over the elements of a set of row numbers
RECURSIVE SumRows(_, _)
SumRows(f(_), S) ==
    IF S = {} THEN RZero
    ELSE LET i == CHOOSE x \in S : TRUE IN RAdd(f(i), SumRows(f, S \ {i}))

\* The statistics of columns j > k counted from the processed rows in which
\* both cells are numbers
Recount(j, k) ==
    LET both == {i \in 1..Len(ProcessedRows) : NumberAt(j, i).ok /\ NumberAt(k, i).ok}
        X(i) == NumberAt(j, i).x
        Y(i) == NumberAt(k, i).x
        XX(i) == RMul(X(i), X(i))
        YY(i) == RMul(Y(i), Y(i))
        XY(i) == RMul(X(i), Y(i))
    IN  [ n |-> Cardinality(both), sumX |-> SumRows(X, both), sumY |-> SumRows(Y, both),
          sumXX |-> SumRows(XX, both), sumYY |-> SumRows(YY, both),
          sumXY |-> SumRows(XY, both) ]

\* The cells a cell can be changed to
OtherCells == {<<>>, Chars("7"), Chars("x")}

\* rows with cell a (0-based) of row i replaced by v
WithCell(i, a, v) == [rows EXCEPT ![i] = [PadRow(@, acc.ncol) EXCEPT ![a + 1] = v]]

\* The accumulators of a second run that continues from the state st of the
\* loop over the rows recs
RerunFrom(st, recs) == RunRows(in.src, in.opt, st, recs).acc

\* The accumulators of a second run of the same call over other rows
Rerun(recs) == RunRows(in.src, in.opt, AfterHeader(in.path, Head0(in, target)[1]), recs).acc

\* C5: the pair accumulator of columns B and C counts and sums exactly the
\* processed rows in which both B and C parsed as numeric; changing the cell
\* of a third column A in any row, to missing or to another value, leaves the
\* accumulator and the reported correlation of B and C unchanged.
PairwiseComplete ==
    (pc \in {"rows", "done"} /\ in.opt.Correlations) =>
        LET cols == 0..(acc.ncol - 1)
            key(j, k) == j * acc.ncol + k
        IN  /\ \A j \in cols : \A k \in cols :
                  j > k => MapGet(acc.pair, key(j, k), ZeroPair) = Recount(j, k)
            /\ pc = "done" =>
               \A h0 \in {AfterHeader(in.path, Head0(in, target)[1])} :
               \A i \in 1..Len(rows) :
               \A before \in {RunRows(in.src, in.opt, h0, SubSeq(rows, 1, i - 1))} :
               \A a \in cols : \A v \in OtherCells :
                  \A other \in {RerunFrom(before, SubSeq(WithCell(i, a, v), i, Len(rows)))} :
                      \A j \in cols \ {a} : \A k \in cols \ {a} :
                         j > k =>
                            /\ MapGet(other.pair, key(j, k), ZeroPair)
                                   = MapGet(acc.pair, key(j, k), ZeroPair)
                            /\ MatrixCell(other, j, k) = MatrixCell(acc, j, k)
                            /\ MatrixCell(other, k, j) = MatrixCell(acc, k, j)

\* Three processed rows, the first column missing in one of them: the pair of
\* the second and third column counts three rows, the pairs with the first two
PairwiseCompleteWitness ==
    /\ Analyzed
    /\ in.opt.Correlations
    /\ acc.ncol = 3
    /\ rep.Processed = 3
    /\ \E i \in 1..3 : Len(TrimSpace(CellOf(rows[i], 0))) = 0
    /\ MapGet(acc.pair, 2 * 3 + 1, ZeroPair).n = 3
    /\ MapGet(acc.pair, 1 * 3 + 0, ZeroPair).n = 2
    /\ MatrixCell(acc, 2, 1) # CorrZero

\* The texts the call can render when the input ends here, one for every
\* order in which the ranges over the maps can run
Renderings == {Markdown(Finalize(in.opt, acc, rep, ord)) : ord \in RangeOrders(acc)}

\* C6: two runs on the same file with the same Options render byte-identical
\* text, whatever the iteration order of the maps: the order of the groups, of
\* each group's correlation pairs, of the global top pairs and of the
\* categorical top values is the same in every run.
RenderingIsDeterministic == pc = "rows" => Cardinality(Renderings) = 1

\* The same for the inputs whose column names are all different and none a
\* prefix of another: there every group's pairs have different A+B.
DistinctNamesRenderOnce ==
    (pc = "rows" /\ \A i \in 1..acc.ncol : \A j \in 1..acc.ncol :
                       i # j => ~HasPrefix(acc.cols[i].name, acc.cols[j].name))
        => Cardinality(Renderings) = 1

\* The lines of a rendered text hold the section of the sample rows
HasSampleSection(md) == \E i \in 1..Len(md) : md[i] = SectionSamples

\* C7: with Options.SampleRows = 0 the Report holds no sample rows and the
\* rendered text has no [HEAD AND SAMPLE ROWS] section, for delimited-text and
\* for spreadsheet input.
NoSamplesWhenZero ==
    (pc = "done" /\ in.opt.SampleRows = 0) =>
        Len(rep.Samples) = 0 /\ ~HasSampleSection(Markdown(rep))

\* What the spreadsheet path does hold of it
NoSamplesWhenZeroXlsx == in.src = "xlsx" => NoSamplesWhenZero

\* Rows, Processed, column summaries, sample rows, warnings, groups and
\* correlation matrix of two Reports
SameContents(r1, r2) ==
    /\ r1.Rows = r2.Rows /\ r1.Processed = r2.Processed /\ r1.Cols = r2.Cols
    /\ r1.Samples = r2.Samples /\ r1.Warnings = r2.Warnings /\ r1.Groups = r2.Groups
    /\ r1.Corr = r2.Corr

OtherSource == IF in.src = "csv" THEN "xlsx" ELSE "csv"

\* The Reports the other path can return for the header and the rows of this
\* call, one for every order of the ranges over its maps
OtherReports ==
    LET st == RunRows(OtherSource, in.opt, AfterHeader(in.path, Head0(in, target)[1]), rows)
    IN  {Finalize(in.opt, st.acc, st.rep, ord) : ord \in RangeOrders(st.acc)}

\* A header and rows that both row sources can yield
BothCanYield == CsvYields(Head0(in, target)[1]) /\ \A i \in 1..Len(rows) : CsvYields(rows[i])

\* C8: for the same header, the same data rows and the same Options the
\* spreadsheet path and the delimited-text path return the same Report
\* contents.
SamePathsSameReport ==
    (Analyzed /\ BothCanYield) => \E other \in OtherReports : SameContents(rep, other)

\* The same outside SampleRows = 0
SamePathsSameReportButZero == in.opt.SampleRows # 0 => SamePathsSameReport

\* s holds sub as a substring
IsSubstring(sub, s) ==
    \E i \in 0..(Len(s) - Len(sub)) : SubSeq(s, i + 1, i + Len(sub)) = sub

\* No declared sheet has the requested name
NameUnknown ==
    /\ in.src = "xlsx"
    /\ Len(in.sheetName) > 0
    /\ \A i \in 1..Len(in.sheets) : ToLower(in.sheets[i].Name) # ToLower(in.sheetName)

\* C9: when a sheet name is requested that no declared sheet matches
\* case-insensitively, AnalyzeXLSX returns an error and no Report, the message
\* lists every declared sheet name, and no sheet is read by index or as the
\* first sheet; a name that matches decides the sheet whatever the index.
UnknownSheetIsAnError ==
    /\ NameUnknown =>
          /\ pc \in {"start", "error"}
          /\ Len(target) = 0
          /\ pc = "error" =>
                /\ rep.nil
                /\ err # NoError
                /\ \A i \in 1..Len(in.sheets) : IsSubstring(in.sheets[i].Name, Chars(err))
    /\ (in.src = "xlsx" /\ Len(in.sheetName) > 0 /\ pc \in {"header", "rows", "done"}) =>
          \E i \in 1..Len(in.sheets) :
              /\ ToLower(in.sheets[i].Name) = ToLower(in.sheetName)
              /\ \A k \in 1..(i - 1) : ToLower(in.sheets[k].Name) # ToLower(in.sheetName)
              /\ in.sheets[i].RID \in DOMAIN in.rels
              /\ target = normalizeRelPath(in.rels[in.sheets[i].RID])

\* The call for the unknown name "Nope" with the index of a declared sheet
\* has returned the error
UnknownSheetWitness ==
    /\ NameUnknown
    /\ in.sheetIndex = 2
    /\ pc = "error"
    /\ rep.nil
    /\ IsSubstring(Chars("Data, Other, Lost"), Chars(err))

\* The file the call reads has no header row, or a header row without cells
HeaderIsEmpty ==
    /\ pc \in {"header", "done", "error"}
    /\ acc.ncol = 0
    /\ in.src = "xlsx" => Len(target) > 0 /\ HasKey(in.files, target)
    /\ LET head == Head0(in, target) IN Len(head) = 0 \/ Len(head[1]) = 0

\* C10: a file whose header is empty or has zero columns makes the analysis
\* fail with an error returned to the caller, for delimited-text and for
\* spreadsheet input.
EmptyHeaderIsAnError ==
    (HeaderIsEmpty /\ pc # "header") => (pc = "error" /\ err # NoError /\ rep.nil)

\* Whether one of the requested group-by columns has a value in the row
HasGroupValue(rec) ==
    \E n \in 1..Len(in.opt.GroupBy) :
        LET lk == ToLower(TrimSpace(in.opt.GroupBy[n]))
        IN  /\ lk \in DOMAIN acc.gbIndex
            /\ TrimSpace(CellOf(rec, acc.gbIndex[lk])) # <<>>

\* The processed rows in which a requested group-by column has a value
KeyedRows == {i \in 1..Len(ProcessedRows) : HasGroupValue(ProcessedRows[i])}

\* C12: a processed row in which no requested group-by column has a value
\* joins no group: the group sizes add up to at most the number of processed
\* rows with a group-by value, and no group key ends in a part without value.
EmptyGroupCellsJoinNoGroup ==
    pc \in {"rows", "done"} =>
        /\ SumAccSizes(acc.groups, DOMAIN acc.groups) <= Cardinality(KeyedRows)
        /\ \A k \in DOMAIN acc.groups : ~HasSuffix(k, <<"=">>)

\* The position of the sheet that a sheet index asks for: 1-based, the first
\* sheet for an index <= 0
AskedPosition == IF in.sheetIndex <= 0 THEN 1 ELSE in.sheetIndex

\* C20: with no sheet name, sheet index N selects the N-th sheet of the
\* workbook, and an index <= 0 the first one: the sheet file that is read is
\* the target of the relationship of the sheet at that position.
IndexSelectsNthSheet ==
    ( /\ in.src = "xlsx"
      /\ in.sheetName = <<>>
      /\ pc \in {"header", "rows", "done"}
      /\ AskedPosition <= Len(in.sheets)
      /\ in.sheets[AskedPosition].RID \in DOMAIN in.rels )
        => target = normalizeRelPath(in.rels[in.sheets[AskedPosition].RID])

\* The processed rows of the group with the key gk
GroupRows(gk) ==
    {i \in 1..Len(ProcessedRows) :
        GroupKey(in.opt, acc, PadRow(ProcessedRows[i], acc.ncol)) = gk}

\* The rows of a group in which the cells of columns j and k are both numbers
BothNumeric(gk, j, k) == {i \in GroupRows(gk) : NumberAt(j, i).ok /\ NumberAt(k, i).ok}

\* n * sum(v^2) - sum(v)^2 of column j over a set of rows
Spread(j, S) ==
    LET V(i) == NumberAt(j, i).x
        VV(i) == RMul(V(i), V(i))
    IN  RSub(RMul(RInt(Cardinality(S)), SumRows(VV, S)), RMul(SumRows(V, S), SumRows(V, S)))

\* C19: with CorrPerGroup and a non-empty GroupBy, whether or not Correlations
\* is set, a group with at least two rows in which two columns are both
\* numeric, each with non-zero variance over those rows, reports that pair.
GroupPairsWithoutGlobal ==
    (pc = "done" /\ acc.ncol > 0 /\ in.opt.CorrPerGroup /\ Len(in.opt.GroupBy) > 0) =>
        \A g \in 1..Len(rep.Groups) : \A j, k \in 0..(acc.ncol - 1) :
            LET S == BothNumeric(rep.Groups[g].Key, j, k)
            IN  (j > k /\ Cardinality(S) >= 2 /\ ~RIsZero(Spread(j, S)) /\ ~RIsZero(Spread(k, S)))
                    => \E p \in 1..Len(rep.Groups[g].CorrPairs) :
                          /\ rep.Groups[g].CorrPairs[p].A = acc.cols[k + 1].name
                          /\ rep.Groups[g].CorrPairs[p].B = acc.cols[j + 1].name

\* The same with the global toggle set as well
GroupPairsWithGlobal == in.opt.Correlations => GroupPairsWithoutGlobal

\* C11: structural failures of a spreadsheet are fatal; in particular a call
\* whose resolved sheet path is absent from the archive returns an error and
\* never a Report.
MissingSheetPartIsFatal ==
    (in.src = "xlsx" /\ pc = "done") => target \in DOMAIN in.files

\* The header line of the delimited-text file of the call
HeaderLine == readZipFile(in.files, in.path)[1]

\* The header line is written with the separator sep alone
WrittenWith(sep) ==
    /\ in.src = "csv"
    /\ readZipFile(in.files, in.path) # <<>>
    /\ IndexOf(HeaderLine, sep, 1) > 0
    /\ \A o \in ({","} \cup Separators) \ {sep} : IndexOf(HeaderLine, o, 1) = 0

\* C18: with Options.Delimiter left 0, a delimited-text file written with ';'
\* or with the tab is split into its separate columns: the analysis has as
\* many columns as the header line has fields between its separators.
DelimiterIsDetected ==
    \A sep \in Separators :
        ( WrittenWith(sep) /\ in.opt.Delimiter = NoRune /\ pc \in {"rows", "done"} )
            => acc.ncol = Len(SplitFields(HeaderLine, sep))

\* The detection the code has: the tab for a name in ".tsv", the separator
\* the caller names
DelimiterByNameOrOption ==
    \A sep \in Separators :
        ( WrittenWith(sep) /\ pc \in {"rows", "done"} /\ Delim(in.opt, in.path) = sep )
            => acc.ncol = Len(SplitFields(HeaderLine, sep))

(***************************************************************************)
(* normalizeRelPath on its own: a relationship target is normalized, and   *)
(* the result is normalized again.                                         *)
(***************************************************************************)

\* The largest number of segments of a relationship target
MaxSegments == 2

\* Segment texts: names, and the segments that filepath.Join rewrites
Segments == { Chars("xl"), Chars("worksheets"), Chars("sheet1.xml"), Chars(".."), Chars("."), <<>> }

\* The ways a target is written in front of its relative part
Prefixes == { <<>>, Chars("/"), Chars("xl/"), Chars("/xl/") }

SegmentLists == UNION { [1..n -> Segments] : n \in 1..MaxSegments }

PathInit ==
    /\ in \in { [segs |-> sg, prefix |-> pre] : sg \in SegmentLists, pre \in Prefixes }
    /\ pc = "rel"
    /\ target = <<>>
    /\ rows = <<>>
    /\ acc = InitAcc(<<>>)
    /\ rep = NilReport
    /\ err = NoError

\* The relative part of the target, and the target as written
RelPart == Join(in.segs, <<"/">>)
Written == in.prefix \o RelPart

\* normalizeRelPath(rel.Target)
Normalize ==
    /\ pc = "rel"
    /\ target' = normalizeRelPath(Written)
    /\ pc' = "once"
    /\ UNCHANGED <<in, rows, acc, rep, err>>

\* normalizeRelPath of the result
Renormalize ==
    /\ pc = "once"
    /\ target' = normalizeRelPath(target)
    /\ pc' = "twice"
    /\ UNCHANGED <<in, rows, acc, rep, err>>

PathNext == Normalize \/ Renormalize

PathSpec == PathInit /\ [][PathNext]_vars

\* A path of ordinary segments: no empty segment, no "." and no ".."
Ordinary == \A i \in 1..Len(in.segs) : in.segs[i] \notin { <<>>, Chars("."), Chars("..") }

XlSlash == Chars("xl/")

\* C16 as stated: for every relative path p of ordinary segments, the four
\* ways of writing it (p, /p, xl/p, /xl/p) normalize to xl/p; no result
\* starts with "/"; normalizing a result again leaves it unchanged.
FourFormsOfEveryOrdinaryPath ==
    pc \in {"once", "twice"} =>
        /\ ~HasPrefix(target, <<"/">>)
        /\ Ordinary => target = XlSlash \o RelPart

\* C16, amended: the same for every relative path p of ordinary segments
\* that does not itself begin with the segment xl followed by another
\* segment: the four ways of writing p normalize to xl/p, once and twice
\* over; and no result of any target starts with "/".
FourFormsOfPathsOutsideXl ==
    pc \in {"once", "twice"} =>
        /\ ~HasPrefix(target, <<"/">>)
        /\ ( Ordinary /\ ~HasPrefix(RelPart, XlSlash) ) => target = XlSlash \o RelPart

\* The absolute target /xl/worksheets/sheet1.xml has been normalized twice
FourFormsWitness ==
    /\ pc = "twice"
    /\ in.prefix = Chars("/xl/")
    /\ RelPart = Chars("worksheets/sheet1.xml")
    /\ target = Sheet1Path

\* The group of size m and key k comes before the group of size n and key l
Before(m, k, n, l) == m > n \/ (m = n /\ StrLess(k, l))

\* The keys of the groups of the Report
ReportedKeys == { rep.Groups[i].Key : i \in 1..Len(rep.Groups) }

\* C13: Report.Groups holds at most 20 groups, ordered by non-increasing Size
\* with equal sizes in ascending Key order, and it is the prefix of all the
\* groups under that order: every group left out comes after every group of
\* the Report.
GroupsAreTheFirstTwenty ==
    Analyzed =>
        /\ Len(rep.Groups) = Min2(20, Cardinality(DOMAIN acc.groups))
        /\ \A i \in 1..Len(rep.Groups) :
              /\ rep.Groups[i].Key \in DOMAIN acc.groups
              /\ rep.Groups[i].Size = acc.groups[rep.Groups[i].Key].size
        /\ \A i, j \in 1..Len(rep.Groups) :
              i < j => Before(rep.Groups[i].Size, rep.Groups[i].Key,
                              rep.Groups[j].Size, rep.Groups[j].Key)
        /\ \A k \in DOMAIN acc.groups \ ReportedKeys : \A i \in 1..Len(rep.Groups) :
              Before(rep.Groups[i].Size, rep.Groups[i].Key, acc.groups[k].size, k)

\* A file of 22 groups was analyzed: the Report has 20 of them, the largest
\* first, and two groups of one row are left out
GroupsAreTheFirstTwentyWitness ==
    /\ Analyzed
    /\ Cardinality(DOMAIN acc.groups) = 22
    /\ Len(rep.Groups) = 20
    /\ rep.Groups[1].Size = 3
    /\ rep.Groups[2].Size = rep.Groups[3].Size
    /\ rep.Groups[20].Size = 1
    /\ DOMAIN acc.groups \ ReportedKeys # {}

\* The number of processed rows in which the cell of column j is a number
NumericValues(j) == Cardinality({i \in 1..Len(ProcessedRows) : NumberAt(j, i).ok})

\* C15: a numeric column with fewer than 8 numeric values reports the
\* outlier count 0, whatever its values and whatever the OutlierThreshold.
FewValuesNoOutliers ==
    Analyzed =>
        \A j \in 1..Len(rep.Cols) :
            ( rep.Cols[j].Kind = "numeric" /\ NumericValues(j - 1) < 8 )
                => rep.Cols[j].OutliersCount = 0

\* Outliers are counted, the column has eight cells and seven numbers, one
\* of them beyond the threshold by its robust z-score, and the count is 0
FewValuesNoOutliersWitness ==
    /\ Analyzed
    /\ in.opt.Outliers
    /\ Len(rows) = 8
    /\ rep.Cols[1].Kind = "numeric"
    /\ NumericValues(0) = 7
    /\ OutlierStats(acc.numericVals[1], in.opt).cnt > 0
    /\ rep.Cols[1].OutliersCount = 0

\* The same column with eight numbers reports its outlier
EightValuesOutlier == Analyzed /\ NumericValues(0) = 8 /\ rep.Cols[1].OutliersCount = 1

\* The conversions the unit targets name: g/L to mg/L, ug/L to mg/L, degrees
\* Fahrenheit to Celsius
ConvertedFrom(u, x) ==
    IF u = UnitGL THEN RMul(x, RInt(1000))
    ELSE IF u = UnitUgL THEN RDiv(x, RInt(1000))
    ELSE RDiv(RMul(RSub(x, RInt(32)), RInt(5)), RInt(9))

\* The unit of the header of column j (0-based), and whether the options
\* give it one of the three supported targets
HeaderUnit(j) == splitUnits(TrimSpace(Head0(in, target)[1][j + 1])).unit

Supported(j) ==
    /\ HeaderUnit(j) \in DOMAIN in.opt.UnitTargets
    /\ <<HeaderUnit(j), in.opt.UnitTargets[HeaderUnit(j)]>>
           \in { <<UnitGL, UnitMgL>>, <<UnitUgL, UnitMgL>>, <<UnitDegF, UnitDegC>> }

\* Whether cell j of processed row i is a number, and the number as written
IsNumber(j, i) ==
    /\ TrimSpace(CellOf(ProcessedRows[i], j)) # <<>>
    /\ parseNumeric(TrimSpace(CellOf(ProcessedRows[i], j)), <<>>, in.opt).ok

AsWritten(j, i) == parseNumeric(TrimSpace(CellOf(ProcessedRows[i], j)), <<>>, in.opt).x

\* The value of cell j of processed row i that the accumulators are to hold:
\* converted once from the unit of the header when that unit is supported
Expected(j, i) ==
    IF in.opt.UnitNormalize /\ Supported(j) THEN ConvertedFrom(HeaderUnit(j), AsWritten(j, i))
    ELSE AsWritten(j, i)

\* The expected values of column j over the processed rows in S, in row order
RECURSIVE ExpectedValues(_, _, _)
ExpectedValues(j, i, S) ==
    IF i > Len(ProcessedRows) THEN <<>>
    ELSE (IF i \in S /\ IsNumber(j, i) THEN <<Expected(j, i)>> ELSE <<>>)
            \o ExpectedValues(j, i + 1, S)

RECURSIVE SumOf(_)
SumOf(s) == IF s = <<>> THEN RZero ELSE RAdd(Head(s), SumOf(Tail(s)))

AllRows == 1..Len(ProcessedRows)

\* Every numeric value of a column whose header unit is supported is in the
\* column statistics, the outlier buffer, the group sums and the pair
\* accumulators as converted once from the header unit
ConvertedOnceEverywhere ==
    \A j \in 0..(acc.ncol - 1) :
        Supported(j) =>
            LET vals == ExpectedValues(j, 1, AllRows)
                c == acc.cols[j + 1]
            IN  /\ c.n = Len(vals)
                /\ vals # <<>> =>
                      /\ acc.numericVals[j + 1] = vals
                      /\ c.mean = RDiv(SumOf(vals), RInt(Len(vals)))
                      /\ \E i \in 1..Len(vals) : c.min = vals[i]
                      /\ \E i \in 1..Len(vals) : c.max = vals[i]
                      /\ \A i \in 1..Len(vals) : RLeq(c.min, vals[i]) /\ RLeq(vals[i], c.max)
                /\ \A gk \in DOMAIN acc.groups :
                      ExpectedValues(j, 1, GroupRows(gk)) # <<>> =>
                          /\ j \in DOMAIN acc.groups[gk].sum
                          /\ acc.groups[gk].sum[j] = SumOf(ExpectedValues(j, 1, GroupRows(gk)))
                /\ in.opt.Correlations =>
                      \A k \in 0..(acc.ncol - 1) \ {j} :
                          LET both == {i \in AllRows : IsNumber(j, i) /\ IsNumber(k, i)}
                              hi == IF j > k THEN j ELSE k
                              lo == IF j > k THEN k ELSE j
                              pa == MapGet(acc.pair, hi * acc.ncol + lo, ZeroPair)
                          IN  /\ pa.n = Cardinality(both)
                              /\ (IF j > k THEN pa.sumX ELSE pa.sumY)
                                    = SumOf(ExpectedValues(j, 1, both))
                              /\ (IF j > k THEN pa.sumY ELSE pa.sumX)
                                    = SumOf(ExpectedValues(k, 1, both))

\* C14 as stated: with UnitNormalize and a header unit with a supported
\* target, every numeric value of the column is converted exactly once from
\* the header's unit before it enters the statistics, the outlier buffer, the
\* group sums and the pair accumulators, and the reported unit of the column
\* is the target unit.
UnitsConvertedAndTargetReported ==
    ( pc \in {"rows", "done"} /\ in.opt.UnitNormalize ) =>
        /\ ConvertedOnceEverywhere
        /\ pc = "done" =>
              \A j \in 0..(acc.ncol - 1) :
                  Supported(j) => rep.Cols[j + 1].Unit = in.opt.UnitTargets[HeaderUnit(j)]

\* C14, amended: the same, the reported unit being the target unit for the
\* columns in which a numeric value was processed; a column without one
\* reports the unit of its header.
UnitsConvertedAndTargetReportedOnceNumeric ==
    ( pc \in {"rows", "done"} /\ in.opt.UnitNormalize ) =>
        /\ ConvertedOnceEverywhere
        /\ pc = "done" =>
              \A j \in 0..(acc.ncol - 1) :
                  Supported(j) =>
                      rep.Cols[j + 1].Unit =
                          IF ExpectedValues(j, 1, AllRows) # <<>>
                          THEN in.opt.UnitTargets[HeaderUnit(j)] ELSE HeaderUnit(j)

\* The file with the Fahrenheit, ug/L and g/L columns was analyzed: 32, 41,
\* 50 and 23 degrees Fahrenheit are 0, 5, 10 and -5 degrees Celsius, and
\* the group a holds 0 + 10 degrees
UnitsConvertedWitness ==
    /\ Analyzed
    /\ in.opt.UnitNormalize
    /\ acc.ncol = 6
    /\ acc.numericVals[2] = <<RZero, RInt(5), RInt(10), RInt(-5)>>
    /\ acc.numericVals[3] = <<Rat(1, 10), Rat(2, 10), Rat(3, 10)>>
    /\ acc.numericVals[4] = <<RInt(100), RInt(200), RInt(300)>>
    /\ acc.groups[Chars("g=a")].sum[1] = RInt(10)
    /\ rep.Cols[2].Unit = UnitDegC
    /\ rep.Cols[3].Unit = UnitMgL
    /\ rep.Cols[5].Unit = UnitGL

\* A float64 that is a number
Finite(x) == x.d # 0

\* The processed cells that spell a value that is no number
SpecialCells ==
    { <<i, j>> \in (1..Len(ProcessedRows)) \X (0..(acc.ncol - 1)) :
        ParseSpecial(TrimSpace(CellOf(ProcessedRows[i], j))).ok }

\* Every numeric field of the Report is a number
ReportIsFinite ==
    /\ \A j \in 1..Len(rep.Cols) :
          /\ Finite(rep.Cols[j].Min) /\ Finite(rep.Cols[j].Max) /\ Finite(rep.Cols[j].Mean)
          /\ Finite(rep.Cols[j].Std.radicand)
          /\ Finite(rep.Cols[j].OutliersMaxAbsZ)
    /\ \A g \in 1..Len(rep.Groups) :
          /\ \A nm \in DOMAIN rep.Groups[g].Metrics :
                /\ Finite(rep.Groups[g].Metrics[nm].Min)
                /\ Finite(rep.Groups[g].Metrics[nm].Max)
                /\ Finite(rep.Groups[g].Metrics[nm].Mean)
          /\ \A p \in 1..Len(rep.Groups[g].CorrPairs) : Finite(rep.Groups[g].CorrPairs[p].R.q)
    /\ \A x \in 1..Len(rep.Corr.Values) : \A y \in 1..Len(rep.Corr.Values[x]) :
          Finite(rep.Corr.Values[x][y].q)

\* C17: no numeric field of a returned Report (column Min, Max, Mean, Std,
\* outlier max |z|, group metric Min, Max, Mean, correlation values) is NaN or
\* an infinity, whatever the cells hold, the spellings of NaN and of the
\* infinities included.
NoNaNOrInfInReport == Analyzed => ReportIsFinite

\* The Reports of the files of which no cell spells such a value hold numbers
\* only, columns and pairs without variance included; so do the correlation
\* values of every Report.
NoNaNOrInfFromNumbers ==
    Analyzed =>
        /\ SpecialCells = {} => ReportIsFinite
        /\ \A g \in 1..Len(rep.Groups) :
              \A p \in 1..Len(rep.Groups[g].CorrPairs) : Finite(rep.Groups[g].CorrPairs[p].R.q)
        /\ \A x \in 1..Len(rep.Corr.Values) : \A y \in 1..Len(rep.Corr.Values[x]) :
              Finite(rep.Corr.Values[x][y].q)

(***************************************************************************)
(* C22: the kind of a column from its hit counts                           *)
(***************************************************************************)

\* The trimmed text of cell j (0-based) of processed row i
CellText(j, i) == TrimSpace(CellOf(ProcessedRows[i], j))

\* The processed rows whose cell j is a number, a date, neither
NumberRows(j) == {i \in 1..Len(ProcessedRows) : NumberAt(j, i).ok}
DateRows(j) ==
    {i \in 1..Len(ProcessedRows) \ NumberRows(j) :
        CellText(j, i) # <<>> /\ parseTimeMaybe(CellText(j, i))}
TextRows(j) ==
    {i \in 1..Len(ProcessedRows) \ (NumberRows(j) \cup DateRows(j)) : CellText(j, i) # <<>>}

\* The kind the rule gives for the hit counts num, dt and txt, hist telling
\* whether the histogram has an entry
KindByRule(num, dt, txt, hist) ==
    IF num > 0 /\ num >= dt /\ num >= txt THEN "numeric"
    ELSE IF dt > 0 /\ dt >= txt THEN "datetime"
    ELSE IF hist THEN "categorical"
    ELSE IF txt > 0 THEN "text"
    ELSE "unknown"

\* The kind of column j by the rule, from the cells of the processed rows
RuleKind(j) ==
    KindByRule(Cardinality(NumberRows(j)), Cardinality(DateRows(j)), Cardinality(TextRows(j)),
               \E i \in TextRows(j) : Len(CellText(j, i)) <= MaxCatLen)

\* The hit count of a kind: the text cells count for categorical and text
HitsOf(kind, j) ==
    IF kind = "numeric" THEN Cardinality(NumberRows(j))
    ELSE IF kind = "datetime" THEN Cardinality(DateRows(j))
    ELSE Cardinality(TextRows(j))

\* C22: after any number of rows the kind of every column is numeric iff its
\* numeric hit count is > 0 and >= its datetime and text hit counts;
\* otherwise datetime iff its datetime hit count is > 0 and >= its text hit
\* count; otherwise categorical iff its histogram has an entry; otherwise
\* text iff a text cell was seen; otherwise unknown. The Report records that
\* kind, and the hit count of the chosen kind is never smaller than that of
\* another one.
KindFollowsHitCounts ==
    (pc \in {"rows", "done"} /\ acc.ncol > 0) =>
        \A j \in 0..(acc.ncol - 1) :
            /\ KindOf(acc.cols[j + 1]) = RuleKind(j)
            /\ pc = "done" => rep.Cols[j + 1].Kind = RuleKind(j)
            /\ \A other \in {"numeric", "datetime", "text"} :
                  HitsOf(RuleKind(j), j) >= HitsOf(other, j)

\* A Report with a column of every kind, a numeric column with as many
\* numbers as texts and a datetime column with as many dates as texts
KindFollowsHitCountsWitness ==
    /\ Analyzed
    /\ {rep.Cols[j].Kind : j \in 1..Len(rep.Cols)}
          = {"numeric", "datetime", "categorical", "text", "unknown"}
    /\ \E j \in 0..(acc.ncol - 1) :
          /\ rep.Cols[j + 1].Kind = "numeric"
          /\ Cardinality(NumberRows(j)) = Cardinality(TextRows(j))
    /\ \E j \in 0..(acc.ncol - 1) :
          /\ rep.Cols[j + 1].Kind = "datetime"
          /\ Cardinality(DateRows(j)) = Cardinality(TextRows(j))

(***************************************************************************)
(* parseNumeric as a function of the text of a cell and of the configured  *)
(* separators                                                              *)
(***************************************************************************)

\* The texts of cells: the two separators in both orders, one of them, none,
\* a space, a percent sign, a separator twice, no number
NumberTexts ==
    { Chars("1,5"), Chars("1.5"), Chars("1.234,5"), Chars("1,234.5"), Chars("1,234"),
      Chars("12"), Chars("1 234"), Chars("1 234,5"), Chars(" 5%"), Chars("1.234.567"),
      Chars("-2,5e1"), Chars("x") }

\* --decimal: unset, comma, dot; --thousands: unset, ",", ".", space
DecimalFlags == { NoRune, ",", "." }
ThousandsFlags == { NoRune, ",", ".", " " }

NumberInit ==
    /\ in \in { [ text |-> t,
                  opt |-> [DefaultOptions EXCEPT !.DecimalSeparator = d,
                                                 !.ThousandsSeparator = th] ] :
                  t \in NumberTexts, d \in DecimalFlags, th \in ThousandsFlags }
    /\ pc = "text"
    /\ target = <<>>
    /\ rows = <<>>
    /\ acc = InitAcc(<<>>)
    /\ rep = NilReport
    /\ err = NoError

\* x, ok := parseNumeric(v, c.unit, opt)
ParseCell ==
    /\ pc = "text"
    /\ acc' = parseNumeric(in.text, <<>>, in.opt)
    /\ pc' = "parsed"
    /\ UNCHANGED <<in, target, rows, rep, err>>

NumberSpec == NumberInit /\ [][ParseCell]_vars

\* The last position of the character c in s, 0 when s has none
LastOf(s, c) ==
    IF \E i \in 1..Len(s) : s[i] = c
    THEN CHOOSE i \in 1..Len(s) : s[i] = c /\ \A k \in (i + 1)..Len(s) : s[k] # c
    ELSE 0

\* The number that the text stands for when `configured` tells whether the
\* configured separators are used: the decimal separator is the configured
\* one, or else the later of "," and "." when the text has both, "," when
\* it has only ",", and "." otherwise; the thousands separator is the other
\* of the two when both were found, the configured one otherwise; the
\* thousands separator (",", "." and the space when there is none) is
\* dropped wherever it is not the decimal one, and the decimal separator
\* reads as ".".
NumberRead(configured, text, opt) ==
    LET raw == TrimSpace(SelectSeq(TrimSpace(text), LAMBDA c : c # "%"))
        both == LastOf(raw, ",") > 0 /\ LastOf(raw, ".") > 0
        dec == IF configured THEN opt.DecimalSeparator
               ELSE IF both THEN (IF LastOf(raw, ",") > LastOf(raw, ".") THEN "," ELSE ".")
               ELSE IF LastOf(raw, ",") > 0 THEN ","
               ELSE "."
        thou == IF ~configured /\ both THEN (IF dec = "," THEN "." ELSE ",")
                ELSE opt.ThousandsSeparator
        dropped == (IF thou = NoRune THEN {",", ".", " "} ELSE {thou}) \ {dec}
        kept == SelectSeq(raw, LAMBDA c : c \notin dropped)
    IN  ParseFloat([i \in 1..Len(kept) |-> IF kept[i] = dec THEN "." ELSE kept[i]])

\* C23 as stated: the configured separators are used only when both
\* DecimalSeparator and ThousandsSeparator are configured; in every other
\* configuration the decimal separator is auto-detected per value.
SeparatorsUsedOnlyWhenBothConfigured ==
    pc = "parsed" =>
        acc = NumberRead(in.opt.DecimalSeparator # NoRune /\ in.opt.ThousandsSeparator # NoRune,
                         in.text, in.opt)

\* C23, amended: a configured DecimalSeparator is used whether or not a
\* ThousandsSeparator is configured; the decimal separator is auto-detected
\* per value exactly when DecimalSeparator is not configured: if the value
\* contains both "." and ",", the one occurring last is the decimal
\* separator and the other is stripped as thousands separator; if it contains
\* only ",", the "," is the decimal separator; otherwise "." is. So "1,5"
\* read with --decimal "." alone is 15, and 1.5 without any flag.
SeparatorsAutoDetectedWithoutDecimal ==
    pc = "parsed" =>
        /\ acc = NumberRead(in.opt.DecimalSeparator # NoRune, in.text, in.opt)
        /\ in.text = Chars("1,5") =>
              /\ in.opt.DecimalSeparator = NoRune => acc = [ok |-> TRUE, x |-> Rat(3, 2)]
              /\ (in.opt.DecimalSeparator = "." /\ in.opt.ThousandsSeparator = NoRune) =>
                    acc = [ok |-> TRUE, x |-> RInt(15)]
        /\ (in.text = Chars("1.234,5") /\ in.opt.DecimalSeparator = NoRune) =>
              acc = [ok |-> TRUE, x |-> Rat(12345, 10)]
        /\ (in.text = Chars("1,234.5") /\ in.opt.DecimalSeparator = NoRune) =>
              acc = [ok |-> TRUE, x |-> Rat(12345, 10)]
        /\ ( in.text = Chars("1.5") /\ in.opt.DecimalSeparator = ","
             /\ in.opt.ThousandsSeparator = NoRune ) =>
              acc = [ok |-> TRUE, x |-> RInt(15)]

\* "1,5" has been read as 15 with the decimal separator "." configured alone
SeparatorsWitness ==
    /\ pc = "parsed"
    /\ in.text = Chars("1,5")
    /\ in.opt.DecimalSeparator = "."
    /\ in.opt.ThousandsSeparator = NoRune
    /\ acc = [ok |-> TRUE, x |-> RInt(15)]

(***************************************************************************)
(* The category histogram of a column that has met many distinct texts     *)
(***************************************************************************)

MaxCells == 3

\* The n-th of the distinct texts of the column: k0001, k0002, ...
HeldKey(n) ==
    << "k", Digits[((n \div 1000) % 10) + 1], Digits[((n \div 100) % 10) + 1],
       Digits[((n \div 10) % 10) + 1], Digits[(n % 10) + 1] >>

\* The column "c" after n rows with the distinct texts k0001 .. of one cell each
HeldColumn(n) ==
    [NewColAcc(<<"c">>, <<>>) EXCEPT !.nonNil = n, !.txtCnt = n,
                                     !.cats = [k \in {HeldKey(i) : i \in 1..n} |-> 1],
                                     !.exText = [i \in 1..MaxExText |-> HeldKey(i)]]

\* The cells that follow: a text that is a key, two texts that are not, and
\* a text too long for a category
CategoryCells == { HeldKey(1), Chars("new"), Chars("newer"), LongText }

\* The row loop after the rows k0001 .. k9999 (and k10000) of a one-column
\* table have been processed
HistogramInit ==
    /\ in \in { [src |-> s, opt |-> DefaultOptions, held |-> n] :
                  s \in {"csv", "xlsx"}, n \in {CatsGuard - 1, CatsGuard} }
    /\ pc = "rows"
    /\ target = <<>>
    /\ rows = <<>>
    /\ acc = [InitAcc(<< <<"c">> >>) EXCEPT !.cols[1] = HeldColumn(in.held)]
    /\ rep = [EmptyReport(<<"t">>) EXCEPT
                !.Rows = in.held, !.Processed = in.held,
                !.Samples = [i \in 1..DefaultSampleRows |-> <<HeldKey(i)>>]]
    /\ err = NoError

\* The next row of the table: one cell
ReadCategory ==
    /\ pc = "rows"
    /\ Len(rows) < MaxCells
    /\ \E v \in CategoryCells :
          /\ rows' = Append(rows, <<v>>)
          /\ \E st \in {RowStep(in.src, in.opt, [acc |-> acc, rep |-> rep], <<v>>)} :
                acc' = st.acc /\ rep' = st.rep
    /\ UNCHANGED <<in, pc, target, err>>

HistogramSpec == HistogramInit /\ [][ReadCategory]_vars

\* The histogram of the column
Cats == acc.cols[1].cats

\* The number of cells that held the text k: one among the first rows when k
\* is one of their texts, and those of the rows that followed
Occurrences(k) ==
    (IF k \in {HeldKey(i) : i \in 1..in.held} THEN 1 ELSE 0)
        + Cardinality({i \in 1..Len(rows) : rows[i][1] = k})

\* C24: the category histogram of a column never holds more than 10,000
\* distinct keys: once it holds 10,000, a further value that is not yet a key
\* is dropped, while the occurrences of the values that are keys are still
\* counted.
HistogramHoldsTenThousandKeys ==
    /\ Cardinality(DOMAIN Cats) <= CatsGuard
    /\ \A i \in 1..Len(rows) : rows[i][1] \in DOMAIN Cats => Cats[rows[i][1]] = Occurrences(rows[i][1])

\* What the guard does keep: the histogram never holds more than 10,001
\* keys, a text longer than 64 characters is never a key, and no count is
\* larger than the number of the cells with the text.
HistogramHoldsOneKeyMore ==
    /\ Cardinality(DOMAIN Cats) <= CatsGuard + 1
    /\ LongText \notin DOMAIN Cats
    /\ \A i \in 1..Len(rows) : rows[i][1] \in DOMAIN Cats => Cats[rows[i][1]] <= Occurrences(rows[i][1])
    /\ Cardinality(DOMAIN Cats) <= CatsGuard =>
          \A i \in 1..Len(rows) :
              rows[i][1] \in DOMAIN Cats => Cats[rows[i][1]] = Occurrences(rows[i][1])

\* The 10,001st key has been added, and a later cell with the text k0001 has
\* not been counted
HistogramOverfullWitness ==
    /\ Cardinality(DOMAIN Cats) = CatsGuard + 1
    /\ rows[Len(rows)][1] = HeldKey(1)
    /\ Cats[HeldKey(1)] = 1

\* The k-th smallest of the values f(i), i in S
KthSmallest(f(_), S, k) ==
    f(CHOOSE i \in S :
         /\ Cardinality({m \in S : RLess(f(m), f(i))}) < k
         /\ Cardinality({m \in S : RLeq(f(m), f(i))}) >= k)

\* The median of the values f(i), i in S: the middle one, or the mean of the
\* two middle ones
MedianOver(f(_), S) ==
    RDiv(RAdd(KthSmallest(f, S, (Cardinality(S) + 1) \div 2),
              KthSmallest(f, S, (Cardinality(S) + 2) \div 2)), RInt(2))

\* The median of the numbers of column j (0-based), their median absolute
\* deviation from the median med, and the score |0.6745 * (x - med) / mad|
\* of the number of row i
MedianOfColumn(j) == MedianOver(LAMBDA i : NumberAt(j, i).x, NumberRows(j))
MadOfColumn(j, med) == MedianOver(LAMBDA i : RAbs(RSub(NumberAt(j, i).x, med)), NumberRows(j))
ScoreAt(j, i, med, mad) ==
    RAbs(RDiv(RMul(Rat(6745, 10000), RSub(NumberAt(j, i).x, med)), mad))

\* OutlierThreshold, or 3.5 when it is <= 0
ThresholdUsed == IF RLeq(in.opt.OutlierThreshold, RZero) THEN Rat(35, 10) ELSE in.opt.OutlierThreshold

\* The count, the largest score and the threshold of the summary s are those
\* of the scores of the set S of rows of column j
ScoresReported(s, j, S, med, mad) ==
    /\ s.OutlierThreshold = ThresholdUsed
    /\ RIsZero(mad) => s.OutliersCount = 0
    /\ ~RIsZero(mad) =>
          \A score \in {[i \in S |-> ScoreAt(j, i, med, mad)]} :
              /\ s.OutliersCount = Cardinality({i \in S : RLess(ThresholdUsed, score[i])})
              /\ \E i \in S : s.OutliersMaxAbsZ = score[i]
              /\ \A i \in S : RLeq(score[i], s.OutliersMaxAbsZ)

\* C25: for a numeric column with at least 8 values and outliers enabled: if
\* the MAD of its values is 0 the outlier count is 0; otherwise the count is
\* the number of values x with |0.6745 * (x - median) / MAD| strictly greater
\* than the threshold, the reported max |z| is the largest such score over
\* all values, and the threshold used and reported is OutlierThreshold, or
\* 3.5 when OutlierThreshold <= 0.
OutliersByRobustScore ==
    (Analyzed /\ in.opt.Outliers) =>
        \A j \in 0..(acc.ncol - 1) :
            ( rep.Cols[j + 1].Kind = "numeric" /\ Cardinality(NumberRows(j)) >= 8 ) =>
                \A med \in {MedianOfColumn(j)} :
                    ScoresReported(rep.Cols[j + 1], j, NumberRows(j), med, MadOfColumn(j, med))

\* Nine numbers and a text with a MAD of 2, the threshold left negative: the
\* reported threshold is 3.5, one value is counted, and the largest score,
\* 0.6745 * 45 / 2, is that of -40
OutliersByRobustScoreWitness ==
    /\ Analyzed
    /\ in.opt.Outliers
    /\ in.opt.OutlierThreshold = RInt(-1)
    /\ Len(rows) = 10
    /\ Cardinality(NumberRows(0)) = 9
    /\ MadOfColumn(0, MedianOfColumn(0)) = RInt(2)
    /\ rep.Cols[1].OutlierThreshold = Rat(35, 10)
    /\ rep.Cols[1].OutliersCount = 1
    /\ rep.Cols[1].OutliersMaxAbsZ = Rat(6745 * 45, 20000)

\* Eight numbers of which six are equal: the MAD is 0 and the value 100 is
\* not counted
ZeroMadNoOutliers ==
    /\ Analyzed
    /\ in.opt.Outliers
    /\ Cardinality(NumberRows(0)) = 8
    /\ RIsZero(MadOfColumn(0, MedianOfColumn(0)))
    /\ rep.Cols[1].OutliersCount = 0
    /\ rep.Cols[1].Max = RInt(100)

(***************************************************************************)
(* C26: the sections of the rendered report                                *)
(***************************************************************************)

\* The section headers in their order
SectionHeaders ==
    << "[DATASET SUMMARY]", "[SCHEMA]", "[GROUP-BY SUMMARY]", "[PER-GROUP CORRELATIONS]",
       "[CORRELATIONS]", SectionSamples, "[NOTES]" >>

\* The lines of the text that are the k-th section header
HeaderAt(md, k) == {i \in 1..Len(md) : md[i] = SectionHeaders[k]}

\* The headers are in the fixed order, each at most once
HeadersInOrder(md) ==
    /\ \A k \in 1..Len(SectionHeaders) : Cardinality(HeaderAt(md, k)) <= 1
    /\ \A k \in 1..Len(SectionHeaders) : \A l \in (k + 1)..Len(SectionHeaders) :
          \A i \in HeaderAt(md, k) : \A j \in HeaderAt(md, l) : i < j

\* Whether the Report has data for the k-th section, from the third on:
\* groups, group correlation pairs, a correlation matrix, sample rows,
\* warnings
HasDataFor(r, k) ==
    IF k = 3 THEN Len(r.Groups) > 0
    ELSE IF k = 4 THEN \E i \in 1..Len(r.Groups) : Len(r.Groups[i].CorrPairs) > 0
    ELSE IF k = 5 THEN r.Corr # NilCorr
    ELSE IF k = 6 THEN Len(r.Samples) > 0
    ELSE Len(r.Warnings) > 0

\* C26: Markdown() emits the section headers in the fixed order, each at
\* most once, and emits the header of a section only if the Report has data
\* for it: columns for [SCHEMA], groups, group correlation pairs, a
\* correlation matrix, sample rows, warnings.
SectionsOnlyWithData ==
    (pc = "done" /\ ~rep.nil) =>
        \A md \in {Markdown(rep)} :
            /\ HeadersInOrder(md)
            /\ HeaderAt(md, 2) # {} => Len(rep.Cols) > 0
            /\ \A k \in 3..Len(SectionHeaders) : HeaderAt(md, k) # {} => HasDataFor(rep, k)

\* What the rendering does keep: the headers are in the fixed order, each at
\* most once; [DATASET SUMMARY] and [SCHEMA] are always there, and each other
\* header is there exactly when the Report has data for its section.
SectionsInFixedOrder ==
    (pc = "done" /\ ~rep.nil) =>
        \A md \in {Markdown(rep)} :
            /\ HeadersInOrder(md)
            /\ HeaderAt(md, 1) # {} /\ HeaderAt(md, 2) # {}
            /\ \A k \in 3..Len(SectionHeaders) : HeaderAt(md, k) # {} <=> HasDataFor(rep, k)

\* The Report of a file without any record, rendered with a [SCHEMA] header
\* and no column
SchemaWithoutColumns ==
    /\ pc = "done"
    /\ ~rep.nil
    /\ Len(rep.Cols) = 0
    /\ Markdown(rep) = <<"[DATASET SUMMARY]", "File: metrics.csv", "Columns: 0", "", "[SCHEMA]">>

(***************************************************************************)
(* C27: the rendered correlation lists                                     *)
(***************************************************************************)

\* The lines of the k-th section of the text, from its header to the next
\* empty line
SectionBody(md, k) ==
    IF HeaderAt(md, k) = {} THEN <<>>
    ELSE LET s == CHOOSE i \in HeaderAt(md, k) : TRUE
             ends == {j \in (s + 1)..Len(md) : md[j] = ""} \cup {Len(md) + 1}
             e == CHOOSE j \in ends : \A l \in ends : j <= l
         IN  SubSeq(md, s + 1, e - 1)

\* The pair p ranks before the pair q: larger |r|, and for equal |r| the
\* smaller concatenation of the two column names
RanksBefore(p, q) ==
    \/ AbsRLess(q.R, p.R)
    \/ AbsREq(p.R, q.R) /\ StrLess(p.A \o p.B, q.A \o q.B)

\* The first n pairs of the set S by rank (all when S has fewer)
TopRanked(S, n) ==
    [i \in 1..Min2(n, Cardinality(S)) |->
        CHOOSE p \in S : Cardinality({q \in S : RanksBefore(q, p)}) = i - 1]

\* The text of a pair
PairText(p) == Str(p.A) \o " ~ " \o Str(p.B) \o ": r=" \o FmtR(p.R)

\* The pairs of the columns i < j of the matrix
PairsOfMatrix(corr) ==
    { [A |-> corr.Columns[i], B |-> corr.Columns[j], R |-> corr.Values[i][j]] :
        <<i, j>> \in {q \in (1..Len(corr.Columns)) \X (1..Len(corr.Columns)) : q[1] < q[2]} }

\* The lines of a group in [PER-GROUP CORRELATIONS] when n pairs are shown
GroupShows(g, n) ==
    IF Len(g.CorrPairs) = 0 THEN <<>>
    ELSE <<"- " \o Str(g.Key) \o ":">>
         \o [i \in 1..Min2(n, Len(g.CorrPairs)) |->
                "  " \o Bullet \o " "
                    \o PairText(TopRanked({g.CorrPairs[l] : l \in 1..Len(g.CorrPairs)}, n)[i])]

RECURSIVE GroupsShow(_, _)
GroupsShow(gs, n) == IF gs = <<>> THEN <<>> ELSE GroupShows(Head(gs), n) \o GroupsShow(Tail(gs), n)

\* [CORRELATIONS] lists the top 10 pairs of the matrix by rank
TopTenOfMatrix(md) ==
    rep.Corr # NilCorr =>
        \A top \in {TopRanked(PairsOfMatrix(rep.Corr), 10)} :
            SectionBody(md, 5) = [i \in 1..Len(top) |-> "- " \o PairText(top[i])]

\* C27: the rendered correlation lists are ranked by descending |r| with ties
\* broken by the lexicographic order of the concatenated column names, and
\* show the top 10 pairs in [CORRELATIONS] and the top 10 pairs of each group
\* in [PER-GROUP CORRELATIONS] (all pairs when there are fewer than 10).
TopTenPairsRendered ==
    Analyzed =>
        \A md \in {Markdown(rep)} :
            /\ TopTenOfMatrix(md)
            /\ SectionBody(md, 4) = GroupsShow(rep.Groups, 10)

\* What the rendering does keep: the same with the top 8 pairs of each group
TopEightPairsOfGroupsRendered ==
    Analyzed =>
        \A md \in {Markdown(rep)} :
            /\ TopTenOfMatrix(md)
            /\ SectionBody(md, 4) = GroupsShow(rep.Groups, 8)

\* A Report whose matrix has 15 pairs and whose groups have 10 pairs each,
\* rendered with 10 lines in [CORRELATIONS] and 8 lines for each group
TenPairsOfGroupNotRendered ==
    /\ Analyzed
    /\ Len(rep.Corr.Columns) = 6
    /\ Len(rep.Groups) = 2
    /\ \A i \in 1..2 : Len(rep.Groups[i].CorrPairs) = 10
    /\ Len(SectionBody(Markdown(rep), 5)) = 10
    /\ Len(SectionBody(Markdown(rep), 4)) = 18

(***************************************************************************)
(* C30: the columns of the per-group correlation pairs                     *)
(***************************************************************************)

\* The pairs of all groups of the Report
AllGroupPairs ==
    UNION { {rep.Groups[i].CorrPairs[l] : l \in 1..Len(rep.Groups[i].CorrPairs)} :
              i \in 1..Len(rep.Groups) }

\* Some column of the Report has the name nm and the kind numeric
NumericNamed(nm) == \E j \in 1..Len(rep.Cols) : rep.Cols[j].Name = nm /\ rep.Cols[j].Kind = "numeric"

\* C30: every pair in a group's CorrPairs names two columns whose final
\* inferred kind is numeric, the columns of the global correlation matrix; a
\* column that ends up datetime, categorical or text never appears in a
\* per-group correlation pair, even if some of its cells parsed as numbers.
GroupPairsOfNumericColumns ==
    Analyzed => \A p \in AllGroupPairs : NumericNamed(p.A) /\ NumericNamed(p.B)

\* What the pairs of the groups do keep: each names two columns of which at
\* least two cells parsed as numbers
GroupPairsOfColumnsWithNumbers ==
    Analyzed =>
        \A p \in AllGroupPairs : \A nm \in {p.A, p.B} :
            \E j \in 1..acc.ncol : acc.cols[j].name = nm /\ acc.cols[j].numCnt >= 2

\* The categorical column y, outside the matrix of the Report, is in a pair
\* of the group g=k
CategoricalColumnInGroupPair ==
    /\ Analyzed
    /\ rep.Cols[3].Kind = "categorical"
    /\ rep.Corr = NilCorr
    /\ \E p \in AllGroupPairs : p.A = <<"x">> /\ p.B = <<"y">> /\ p.R = CorrOne

(***************************************************************************)
(* The row reader of a sheet (xlsx.go, lines 642-780): the tokens of the   *)
(* sheet as xml.Decoder yields them, and sheetRowReader.Next()             *)
(***************************************************************************)

\* xml.StartElement with its attributes r and t (empty when missing),
\* xml.EndElement, xml.CharData
StartOf(name, rAttr, tAttr) == [k |-> "start", name |-> name, r |-> rAttr, t |-> tAttr, text |-> <<>>]
EndOf(name) == [k |-> "end", name |-> name, r |-> <<>>, t |-> <<>>, text |-> <<>>]
CharData(text) == [k |-> "chars", name |-> "", r |-> <<>>, t |-> <<>>, text |-> text]

\* The letters at the head of a reference: ref[:i]
RECURSIVE LettersOf(_)
LettersOf(ref) ==
    IF ref # <<>> /\ (IsUpper(Head(ref)) \/ IsLower(Head(ref)))
    THEN <<Head(ref)>> \o LettersOf(Tail(ref))
    ELSE <<>>

\* idx = idx*26 + int(s[j]-'A'+1) over the letters s
RECURSIVE ColumnNumber(_, _)
ColumnNumber(s, idx) ==
    IF s = <<>> THEN idx
    ELSE ColumnNumber(Tail(s), idx * 26 + (CharCode[Head(s)] - CharCode["A"] + 1))

\* The column number counted from 1
colIndexFromRefOneBased(ref) == ColumnNumber(ToUpper(LettersOf(ref)), 0)

\* colIndexFromRef(ref): "C12" -> 2, and -1 for a reference without letters
colIndexFromRef(ref) == ColumnNumber(ToUpper(LettersOf(ref)), 0) - 1

\* atoiSafe(s): the digits at the head of s as a number, 0 without any
RECURSIVE atoiSafe(_, _)
atoiSafe(s, n) ==
    IF s = <<>> \/ ~IsDigit(Head(s)) THEN n ELSE atoiSafe(Tail(s), n * 10 + DigitVal(Head(s)))

\* The inner loop of readCellValue: the character data up to the end of a v
\* or t element, or to the end of the tokens; the position after it
RECURSIVE TextUntilEnd(_, _, _)
TextUntilEnd(tokens, pos, sb) ==
    IF pos > Len(tokens) THEN [val |-> sb, pos |-> pos]
    ELSE IF tokens[pos].k = "end" /\ tokens[pos].name \in {"v", "t"}
    THEN [val |-> sb, pos |-> pos + 1]
    ELSE TextUntilEnd(tokens, pos + 1,
                      IF tokens[pos].k = "chars" THEN sb \o tokens[pos].text ELSE sb)

\* return of readCellValue at the end of the cell: a shared string by its
\* index, or the text itself
CellResult(shared, tAttr, val) ==
    IF tAttr = <<"s">>
    THEN (IF atoiSafe(val, 0) >= 0 /\ atoiSafe(val, 0) < Len(shared)
          THEN shared[atoiSafe(val, 0) + 1] ELSE <<>>)
    ELSE val

\* readCellValue(tAttr) from the token at pos on: the value and the position
\* after the end of the cell
RECURSIVE readCellValue(_, _, _, _, _)
readCellValue(tokens, shared, pos, tAttr, val) ==
    IF pos > Len(tokens) THEN [val |-> val, pos |-> pos]
    ELSE IF tokens[pos].k = "start" /\ tokens[pos].name \in {"v", "t"}
    THEN readCellValue(tokens, shared, TextUntilEnd(tokens, pos + 1, <<>>).pos, tAttr,
                       TextUntilEnd(tokens, pos + 1, <<>>).val)
    ELSE IF tokens[pos].k = "end" /\ tokens[pos].name = "c"
    THEN [val |-> CellResult(shared, tAttr, val), pos |-> pos + 1]
    ELSE readCellValue(tokens, shared, pos + 1, tAttr, val)

\* make([]string, n); copy(tmp, r.curRow)
Grown(curRow, n) == [i \in 1..n |-> IF i <= Len(curRow) THEN curRow[i] ELSE <<>>]

\* The reader as newSheetRowReader leaves it; pos is the next token of dec
NewReader == [pos |-> 1, inRow |-> FALSE, curRow |-> <<>>, maxCol |-> 0]

\* A cell inside a row: the column index, maxCol, the value, the capacity,
\* and r.curRow[colIdx] = val, which panics for an index below 0
StoreCell(st, colIdx, cv) ==
    IF colIdx < 0 THEN [st |-> [st EXCEPT !.pos = cv.pos], panic |-> TRUE]
    ELSE [ st |-> [st EXCEPT !.pos = cv.pos,
                             !.maxCol = IF colIdx + 1 > @ THEN colIdx + 1 ELSE @,
                             !.curRow = [(IF Len(@) <= colIdx THEN Grown(@, colIdx + 1) ELSE @)
                                            EXCEPT ![colIdx + 1] = cv.val]],
           panic |-> FALSE ]

\* case xml.StartElement: a row starts; a cell inside a row is read
StartElement(tokens, shared, st, tok) ==
    IF tok.name = "row"
    THEN [st |-> [st EXCEPT !.pos = @ + 1, !.inRow = TRUE, !.curRow = <<>>, !.maxCol = 0],
          panic |-> FALSE]
    ELSE IF st.inRow /\ tok.name = "c"
    THEN StoreCell(st, colIndexFromRef(tok.r), readCellValue(tokens, shared, st.pos + 1, tok.t, <<>>))
    ELSE [st |-> [st EXCEPT !.pos = @ + 1], panic |-> FALSE]

\* case xml.EndElement of a row: the row at its full length
EndOfRow(st) ==
    [st EXCEPT !.pos = @ + 1, !.inRow = FALSE,
               !.curRow = IF Len(@) < st.maxCol THEN Grown(@, st.maxCol) ELSE @]

\* sheetRowReader.Next(): the reader after the call, whether it returned a
\* row (st.curRow), and whether it panicked
RECURSIVE SheetNext(_, _, _)
SheetNext(tokens, shared, st) ==
    IF st.pos > Len(tokens) THEN [st |-> st, ok |-> FALSE, panic |-> FALSE]
    ELSE IF tokens[st.pos].k = "start"
    THEN (IF StartElement(tokens, shared, st, tokens[st.pos]).panic
          THEN [st |-> StartElement(tokens, shared, st, tokens[st.pos]).st, ok |-> FALSE,
                panic |-> TRUE]
          ELSE SheetNext(tokens, shared, StartElement(tokens, shared, st, tokens[st.pos]).st))
    ELSE IF tokens[st.pos].k = "end" /\ tokens[st.pos].name = "row"
    THEN [st |-> EndOfRow(st), ok |-> TRUE, panic |-> FALSE]
    ELSE SheetNext(tokens, shared, [st EXCEPT !.pos = @ + 1])

MaxSheetRows == 2

\* A cell element: its reference, its type, and its content as a v element,
\* as an inline string, or none
Cell(ref, t, form, text) == [r |-> Chars(ref), t |-> Chars(t), form |-> form, text |-> Chars(text)]

CellTokens(c) ==
    <<StartOf("c", c.r, c.t)>>
        \o (IF c.form = "v" THEN <<StartOf("v", <<>>, <<>>), CharData(c.text), EndOf("v")>>
            ELSE IF c.form = "is"
            THEN <<StartOf("is", <<>>, <<>>), StartOf("t", <<>>, <<>>), CharData(c.text),
                   EndOf("t"), EndOf("is")>>
            ELSE <<>>)
        \o <<EndOf("c")>>

RECURSIVE CellsTokens(_)
CellsTokens(cs) == IF cs = <<>> THEN <<>> ELSE CellTokens(Head(cs)) \o CellsTokens(Tail(cs))

RowTokens(cs) == <<StartOf("row", <<>>, <<>>)>> \o CellsTokens(cs) \o <<EndOf("row"), CharData(<<" ">>)>>

RECURSIVE RowsTokens(_)
RowsTokens(rs) == IF rs = <<>> THEN <<>> ELSE RowTokens(Head(rs)) \o RowsTokens(Tail(rs))

\* A cell element outside the row elements
StrayCell == Cell("B1", "", "v", "zz")

\* The tokens of a sheet of the rows rs, with a cell element before the first
\* row and one after the last when stray is set
SheetTokens(rs, stray) ==
    <<StartOf("worksheet", <<>>, <<>>), StartOf("sheetData", <<>>, <<>>)>>
        \o (IF stray THEN CellTokens(StrayCell) ELSE <<>>)
        \o RowsTokens(rs)
        \o (IF stray THEN CellTokens(StrayCell) ELSE <<>>)
        \o <<EndOf("sheetData"), EndOf("worksheet")>>

\* The string table of the workbook
SharedStrings == <<Chars("alpha"), Chars("beta")>>

\* Row elements: a number in A and a shared string in C; an inline string in
\* AA; no cell; Z before a lower-case b, a cell without content in D; a cell
\* without a reference after a cell with one; a cell whose reference has no
\* column letters; a cell with an empty reference alone
RowElements ==
    { << Cell("A1", "", "v", "7"), Cell("C12", "s", "v", "1") >>,
      << Cell("AA3", "inlineStr", "is", "hi") >>,
      << >>,
      << Cell("Z2", "", "v", "x"), Cell("b2", "", "v", "y"), Cell("D2", "", "none", "") >>,
      << Cell("A5", "", "v", "1"), Cell("", "", "v", "q") >>,
      << Cell("12", "", "v", "3") >>,
      << Cell("", "s", "v", "0") >> }

SheetInit ==
    /\ in \in { [ sheet |-> rs, tokens |-> SheetTokens(rs, stray), shared |-> SharedStrings ] :
                  rs \in UNION { [1..n -> RowElements] : n \in 1..MaxSheetRows },
                  stray \in BOOLEAN }
    /\ pc = "reading"
    /\ target = <<>>
    /\ rows = <<>>
    /\ acc = NewReader
    /\ rep = NilReport
    /\ err = NoError

\* row, ok := rr.Next(): a row, the end of the input, or a panic
CallNext ==
    /\ pc = "reading"
    /\ \E res \in {SheetNext(in.tokens, in.shared, acc)} :
          /\ acc' = res.st
          /\ rows' = IF res.ok THEN Append(rows, res.st.curRow) ELSE rows
          /\ pc' = IF res.panic THEN "panic" ELSE IF res.ok THEN "reading" ELSE "eof"
    /\ UNCHANGED <<in, target, rep, err>>

SheetSpec == SheetInit /\ [][CallNext]_vars

(***************************************************************************)
(* C28, C29: the rows the reader returns                                   *)
(***************************************************************************)

Alphabet == Chars("ABCDEFGHIJKLMNOPQRSTUVWXYZ")

\* The rank of a letter in the alphabet, whatever its case: A is 1
LetterRank(c) == CHOOSE n \in 1..Len(Alphabet) : Alphabet[n] = c \/ ToLowerChar(Alphabet[n]) = c

RECURSIVE Pow26(_)
Pow26(n) == IF n = 0 THEN 1 ELSE 26 * Pow26(n - 1)

\* The value of the letters ls as a base-26 numeral with the digits A = 1
\* .. Z = 26
RECURSIVE Base26(_)
Base26(ls) ==
    IF ls = <<>> THEN 0 ELSE LetterRank(Head(ls)) * Pow26(Len(ls) - 1) + Base26(Tail(ls))

\* The 0-based column of a cell with column letters: A = 0, Z = 25, AA = 26
ColumnOf(c) == Base26(SelectSeq(c.r, LAMBDA ch : IsUpper(ch) \/ IsLower(ch))) - 1

HasLetters(c) == \E i \in 1..Len(c.r) : IsUpper(c.r[i]) \/ IsLower(c.r[i])

\* The value of a cell: the shared string of its number, or its text
ValueOf(c) ==
    IF c.t = <<"s">> THEN in.shared[DigitsValue(c.text, 0) + 1] ELSE c.text

\* The row of a row element: as long as 1 + its largest column, every cell
\* at its column, empty elsewhere
RowOf(cs) ==
    [i \in 1..(IF cs = <<>> THEN 0
               ELSE 1 + (CHOOSE m \in {ColumnOf(cs[l]) : l \in 1..Len(cs)} :
                            \A l \in 1..Len(cs) : ColumnOf(cs[l]) <= m)) |->
        IF \E l \in 1..Len(cs) : ColumnOf(cs[l]) = i - 1
        THEN ValueOf(cs[CHOOSE l \in 1..Len(cs) : ColumnOf(cs[l]) = i - 1])
        ELSE <<>>]

\* Every cell of the first n row elements has column letters
LettersInRows(n) ==
    \A i \in 1..n : \A l \in 1..Len(in.sheet[i]) : HasLetters(in.sheet[i][l])

\* C28: successive Next() calls return one row per row element in document
\* order and then report the end of the input; each returned row has length
\* 1 + the largest column index among its cells, holds every cell's value (a
\* shared-string cell resolved through the string table) at the 0-based
\* index decoded base-26 from its reference (A = 0, Z = 25, AA = 26,
\* C12 = 2) and the empty string elsewhere; cell elements outside a row
\* element are ignored. The cells are those with column letters in their
\* reference.
RowsInDocumentOrder ==
    /\ Len(rows) <= Len(in.sheet)
    /\ \A i \in 1..Len(rows) : rows[i] = RowOf(in.sheet[i])
    /\ LettersInRows(Len(in.sheet)) =>
          /\ pc # "panic"
          /\ pc = "eof" => Len(rows) = Len(in.sheet)

\* Two row elements read to the end of a sheet with cells outside the rows:
\* 7 in A and the shared string of C12 at index 2, and the row of Z2, b2 and
\* D2 with its 26 cells
RowsInDocumentOrderWitness ==
    /\ pc = "eof"
    /\ Len(in.tokens) > Len(SheetTokens(in.sheet, FALSE))
    /\ Len(rows) = 2
    /\ rows[1] = <<Chars("7"), <<>>, Chars("beta")>>
    /\ Len(rows[2]) = 26
    /\ rows[2][26] = Chars("x") /\ rows[2][2] = Chars("y") /\ rows[2][4] = <<>>

\* C29: row decoding never writes outside the row buffer: for every cell
\* element inside a row, including a cell whose reference attribute is
\* missing, empty or has no column letters, the index at which the value is
\* stored is >= 0 and within the grown buffer, so no cell makes the call
\* crash.
NoCellCrashesTheReader ==
    /\ pc # "panic"
    /\ pc = "eof" => Len(rows) = Len(in.sheet)

\* What the decoding does keep: a call panics only at a cell without column
\* letters in its reference, for which colIndexFromRef is -1
PanicOnlyWithoutLetters ==
    pc = "panic" =>
        /\ Len(rows) < Len(in.sheet)
        /\ \E l \in 1..Len(in.sheet[Len(rows) + 1]) :
              /\ ~HasLetters(in.sheet[Len(rows) + 1][l])
              /\ colIndexFromRef(in.sheet[Len(rows) + 1][l].r) = -1

\* The call for the row of A5 and a cell without a reference has panicked
\* after a first row was returned
PanicAtCellWithoutReference ==
    /\ pc = "panic"
    /\ Len(rows) = 1
    /\ in.sheet[2] = << Cell("A5", "", "v", "1"), Cell("", "", "v", "q") >>

(***************************************************************************)
(* Attaching summaries to a project (cmd/analyze.go, lines 134-216, and    *)
(* cmd/analyze_batch.go, lines 154-229): the files of dataset_summaries/   *)
(***************************************************************************)

MaxRuns == 4
MaxDatasetSummaries == 20

\* The base names of the analyzed files, without their extension
BaseNames == { "metrics", "metrics__2", "other" }

\* sheetBase + ".summary.md", and sheetBase__idx.summary.md
SummaryPath(base) == base \o ".summary.md"
Candidate(base, idx) == base \o "__" \o ToString(idx) \o ".summary.md"

\* for { cand := ...; if os.IsNotExist(Stat(cand)) { outFile = cand; break }; idx++ }
RECURSIVE FirstFree(_, _, _)
FirstFree(dir, base, idx) ==
    IF Candidate(base, idx) \notin DOMAIN dir THEN Candidate(base, idx)
    ELSE FirstFree(dir, base, idx + 1)

\* The file every summary of the base name is written to without the check
OutFileByName(dir, base) == SummaryPath(base)

\* outFile: sheetBase.summary.md, or the first free candidate when os.Stat
\* finds that file
OutFile(dir, base) ==
    IF SummaryPath(base) \in DOMAIN dir THEN FirstFree(dir, base, 2) ELSE SummaryPath(base)

\* A project without summaries: acc is the directory dataset_summaries/, a
\* map from the name of a file to its content (the number of the run that
\* wrote it); rows are the runs
AttachInit ==
    /\ in = [names |-> BaseNames]
    /\ pc = "attach"
    /\ target = <<>>
    /\ rows = <<>>
    /\ acc = NilMap
    /\ rep = NilReport
    /\ err = NoError

\* analyze <file> -p, or one file of analyze-batch -p: the limit of the
\* summaries of the project, the name of the file, os.WriteFile
Attach ==
    /\ pc = "attach"
    /\ Len(rows) < MaxRuns
    /\ Len(rows) < MaxDatasetSummaries
    /\ \E cmd \in {"analyze", "analyze-batch"} : \E base \in in.names :
          /\ rows' = Append(rows, [cmd |-> cmd, base |-> base, file |-> OutFile(acc, base)])
          /\ acc' = MapPut(acc, OutFile(acc, base), Len(rows) + 1)
    /\ UNCHANGED <<in, pc, target, rep, err>>

AttachSpec == AttachInit /\ [][Attach]_vars

\* The files written before run i
WrittenBefore(i) == {rows[j].file : j \in 1..(i - 1)}

\* base__k.summary.md with the lowest k >= 2 that is not among the files S
LowestFree(base, S) ==
    Candidate(base, CHOOSE k \in 2..(Cardinality(S) + 2) :
                       /\ Candidate(base, k) \notin S
                       /\ \A l \in 2..(k - 1) : Candidate(base, l) \in S)

\* Every file holds what the run that wrote it has written
EarlierSummariesKept == \A i \in 1..Len(rows) : acc[rows[i].file] = i

\* C21 as stated: attaching never overwrites an existing summary file: the
\* first summary for a base name is written to <name>.summary.md and each
\* later one to <name>__k.summary.md with the lowest k >= 2 whose file does
\* not exist yet, so all earlier summary files keep their content.
FirstSummaryUnderItsName ==
    /\ EarlierSummariesKept
    /\ \A i \in 1..Len(rows) :
          rows[i].file = IF \A j \in 1..(i - 1) : rows[j].base # rows[i].base
                         THEN SummaryPath(rows[i].base)
                         ELSE LowestFree(rows[i].base, WrittenBefore(i))

\* C21, amended: attaching never overwrites an existing summary file: a
\* summary is written to <name>.summary.md when no file of that name exists
\* (not always the first summary for the base name: the name can have been
\* taken by the second summary of another base name), and otherwise to
\* <name>__k.summary.md with the lowest k >= 2 whose file does not exist
\* yet, so all earlier summary files keep their content.
SummariesNeverOverwritten ==
    /\ EarlierSummariesKept
    /\ \A i \in 1..Len(rows) :
          /\ rows[i].file \notin WrittenBefore(i)
          /\ rows[i].file = IF SummaryPath(rows[i].base) \notin WrittenBefore(i)
                            THEN SummaryPath(rows[i].base)
                            ELSE LowestFree(rows[i].base, WrittenBefore(i))

\* Four runs: metrics twice, then metrics__2, whose name is taken, then
\* metrics again; four files, each with its own content
SummariesNeverOverwrittenWitness ==
    /\ Len(rows) = 4
    /\ [i \in 1..4 |-> rows[i].file]
          = << "metrics.summary.md", "metrics__2.summary.md", "metrics__2__2.summary.md",
               "metrics__3.summary.md" >>
    /\ rows[3].base = "metrics__2"
    /\ Cardinality(DOMAIN acc) = 4

====
